---- MODULE Spec2Model ----
(***************************************************************************)
(* Position, undo record and Zobrist key of the chess engine, as a state   *)
(* machine over do_move / undo_move / do_null_move / undo_null_move.       *)
(*                                                                         *)
(* Bitboards are sets of squares (bit s set <=> s in the set), so |= is    *)
(* union and ^= is symmetric difference.  A 64-bit Zobrist constant is an  *)
(* opaque atom and a key is the set of atoms XORed into it, so ^ is again  *)
(* symmetric difference and two keys are equal iff they are the same set   *)
(* (the random constants are taken to be linearly independent).            *)
(***************************************************************************)
EXTENDS Integers, Sequences, FiniteSets, TLC

VARIABLES board, by_color_bb, by_piece_kind_bb, piece_position,
          current_side, castling_rights, enpassant_square,
          half_move_counter, ply_counter, zobrist_hash, history,
          stack, last, mi, note, srch, book, Uci

vars == <<board, by_color_bb, by_piece_kind_bb, piece_position,
          current_side, castling_rights, enpassant_square,
          half_move_counter, ply_counter, zobrist_hash, history,
          stack, last, mi, note, srch, book, Uci>>

(***************************************************************************)
(* types.h (not part of the sources at hand): the encodings below are the  *)
(* ones the sources rely on.  Squares are 0..63 with A1 = 0 and H8 = 63;   *)
(* NO_SQUARE is the first value past the board.  Pieces index the string   *)
(* " PNBRQKpnbrqk" and piece kinds the string "  NBRQK".                   *)
(***************************************************************************)
WHITE == 0
BLACK == 1
Colors == {WHITE, BLACK}

NO_PIECE_KIND == 0
PAWN == 1
KNIGHT == 2
BISHOP == 3
ROOK == 4
QUEEN == 5
KING == 6
PieceKinds == PAWN..KING

NO_PIECE == 0
W_PAWN == 1
W_KNIGHT == 2
W_BISHOP == 3
W_ROOK == 4
W_QUEEN == 5
W_KING == 6
B_PAWN == 7
B_KNIGHT == 8
B_BISHOP == 9
B_ROOK == 10
B_QUEEN == 11
B_KING == 12
Pieces == W_PAWN..B_KING

SQUARE_NUM == 64
Squares == 0..(SQUARE_NUM - 1)
NO_SQUARE == 64
SQ_A1 == 0
SQ_H1 == 7
SQ_A8 == 56
SQ_H8 == 63

FILE_A == 0
FILE_C == 2
FILE_D == 3
FILE_E == 4
FILE_F == 5
FILE_G == 6
FILE_H == 7
RANK_1 == 0
RANK_2 == 1
RANK_3 == 2
RANK_4 == 3
RANK_5 == 4
RANK_6 == 5
RANK_7 == 6
RANK_8 == 7

file(sq) == sq % 8
rank(sq) == sq \div 8
make_square(r, f) == r * 8 + f

Opp(c) == 1 - c

make_piece(c, k) == IF k = NO_PIECE_KIND THEN NO_PIECE ELSE c * 6 + k
get_color(p) == IF p > W_KING THEN BLACK ELSE WHITE
get_piece_kind(p) == ((p - 1) % 6) + 1
make_piece_kind(p) == IF p = NO_PIECE THEN NO_PIECE_KIND ELSE get_piece_kind(p)

\* Castling is a 4-bit set; KING_CASTLING / QUEEN_CASTLING are the masks of
\* both colours' king-side / queen-side flags, and !c is the complement.
W_OO == 1
W_OOO == 2
B_OO == 4
B_OOO == 8
NO_CASTLING == {}
KING_CASTLING == {W_OO, B_OO}
QUEEN_CASTLING == {W_OOO, B_OOO}
ALL_CASTLING == {W_OO, W_OOO, B_OO, B_OOO}
CASTLING_RIGHTS(c) == IF c = WHITE THEN {W_OO, W_OOO} ELSE {B_OO, B_OOO}
KING_SIDE_ROOK_SQUARE(c) == IF c = WHITE THEN SQ_H1 ELSE SQ_H8
QUEEN_SIDE_ROOK_SQUARE(c) == IF c = WHITE THEN SQ_A1 ELSE SQ_A8
CastlingNot(c) == ALL_CASTLING \ c

\* The castling set as the integer the undo record packs, and back.
RECURSIVE SumSet(_)
SumSet(S) == IF S = {} THEN 0 ELSE LET x == CHOOSE y \in S : TRUE IN x + SumSet(S \ {x})
CastlingBits(c) == SumSet(c)
CastlingOfBits(n) == {b \in ALL_CASTLING : (n \div b) % 2 = 1}

SymDiff(A, B) == (A \ B) \cup (B \ A)

(***************************************************************************)
(* Move encoding (types.cpp): to << 6 | from, promotion << 12,             *)
(* castling code << 15.                                                    *)
(***************************************************************************)
create_move(f, t) == t * 64 + f
create_promotion(f, t, promo) == promo * 4096 + t * 64 + f
create_castling(c) == (IF c = KING_CASTLING THEN 1 ELSE 2) * 32768
from(move) == move % 64
to(move) == (move \div 64) % 64
promotion(move) == (move \div 4096) % 8
castling(move) ==
    LET p == (move \div 32768) % 4
    IN IF p = 0 THEN NO_CASTLING ELSE IF p = 1 THEN KING_CASTLING ELSE QUEEN_CASTLING

(***************************************************************************)
(* Undo record (types.cpp): captured kind in bits 0..2, prior castling in  *)
(* bits 3..6, prior en-passant square in bits 7..12, "had an en-passant    *)
(* square" in bit 13, "was an en-passant capture" in bit 14, prior         *)
(* half-move counter in bits 15..22.                                       *)
(***************************************************************************)
Bool(b) == IF b THEN 1 ELSE 0

create_moveinfo(captured, last_castling_, last_enpassant_, enpassant_, half_move_counter_) ==
    IF last_enpassant_ # NO_SQUARE
    THEN half_move_counter_ * 32768 + Bool(enpassant_) * 16384 + 8192
         + last_enpassant_ * 128 + CastlingBits(last_castling_) * 8 + captured
    ELSE half_move_counter_ * 32768 + Bool(enpassant_) * 16384
         + CastlingBits(last_castling_) * 8 + captured

captured_piece(moveinfo) == moveinfo % 8
last_castling(moveinfo) == CastlingOfBits((moveinfo \div 8) % 16)
last_enpassant_square(moveinfo) == (moveinfo \div 128) % 64
last_enpassant(moveinfo) == (moveinfo \div 8192) % 2 = 1
enpassant(moveinfo) == (moveinfo \div 16384) % 2 = 1
half_move_counter_of(moveinfo) == (moveinfo \div 32768) % 256

(***************************************************************************)
(* Zobrist constants and HashKey (zobrist_hash.cpp).                       *)
(***************************************************************************)
HASH_PIECE(p, sq) == p * 64 + sq
HASH_CASTLING(flag) == 1000 + flag
HASH_ENPASSANT(f) == 2000 + f
HASH_TURN == 3000

EmptyKey == [piece_key |-> {}, pawn_key |-> {}, enpassant_key |-> {},
             castling_key |-> {}, color_key |-> {}]

get_key(z) ==
    SymDiff(SymDiff(SymDiff(SymDiff(z.piece_key, z.pawn_key), z.enpassant_key),
                    z.castling_key), z.color_key)

toggle_piece(z, piece, sq) ==
    IF get_piece_kind(piece) = PAWN
    THEN [z EXCEPT !.pawn_key = SymDiff(@, {HASH_PIECE(piece, sq)})]
    ELSE [z EXCEPT !.piece_key = SymDiff(@, {HASH_PIECE(piece, sq)})]

hash_move_piece(z, piece, f, t) == toggle_piece(toggle_piece(z, piece, f), piece, t)

flip_side(z) == [z EXCEPT !.color_key = SymDiff(@, {HASH_TURN})]

clear_enpassant(z) == [z EXCEPT !.enpassant_key = {}]

set_enpassant(z, f) == [z EXCEPT !.enpassant_key = {HASH_ENPASSANT(f)}]

set_castling(z, c) == [z EXCEPT !.castling_key = {HASH_CASTLING(b) : b \in c}]

(***************************************************************************)
(* Position (position.cpp).  A position is the record of the class's       *)
(* fields; _piece_count[p] is Len(piece_position[p]) (entries past the     *)
(* count are never read).  The ASSERT macros are compiled out.             *)
(*                                                                         *)
(* remove_piece and move_piece on a square holding NO_PIECE index the      *)
(* bitboard arrays with get_color(NO_PIECE) / get_piece_kind(NO_PIECE):    *)
(* which colour and kind that is depends on the build, so it is the        *)
(* parameter ub, chosen by the caller among all colours and kinds.         *)
(***************************************************************************)
UBChoices == [c : Colors, k : PieceKinds]

ColorOf(piece, ub) == IF piece = NO_PIECE THEN ub.c ELSE get_color(piece)
KindOf(piece, ub) == IF piece = NO_PIECE THEN ub.k ELSE get_piece_kind(piece)

ToggleKey(z, piece, sq, ub) ==
    IF KindOf(piece, ub) = PAWN
    THEN [z EXCEPT !.pawn_key = SymDiff(@, {HASH_PIECE(piece, sq)})]
    ELSE [z EXCEPT !.piece_key = SymDiff(@, {HASH_PIECE(piece, sq)})]

\* Index of the first entry of list L, among its first n, equal to sq (0: none).
IndexOf(L, n, sq) ==
    IF \E i \in 1..n : L[i] = sq
    THEN CHOOSE i \in 1..n : L[i] = sq /\ \A j \in 1..(i - 1) : L[j] # sq
    ELSE 0

add_piece(P, piece, sq) ==
    [P EXCEPT !.board[sq] = piece,
              !.by_color_bb[get_color(piece)] = @ \cup {sq},
              !.by_piece_kind_bb[get_piece_kind(piece)] = @ \cup {sq},
              !.piece_position[piece] = Append(@, sq),
              !.zobrist_hash = toggle_piece(@, piece, sq)]

remove_piece(P, sq, ub) ==
    LET piece == P.board[sq]
        L == P.piece_position[piece]
        n == Len(L)
        i == IndexOf(L, n - 1, sq)
        L1 == IF i > 0 THEN [L EXCEPT ![i] = L[n]] ELSE L
    IN [P EXCEPT !.board[sq] = NO_PIECE,
                 !.by_color_bb[ColorOf(piece, ub)] = SymDiff(@, {sq}),
                 !.by_piece_kind_bb[KindOf(piece, ub)] = SymDiff(@, {sq}),
                 !.piece_position[piece] = IF n > 0 THEN SubSeq(L1, 1, n - 1) ELSE L,
                 !.zobrist_hash = ToggleKey(@, piece, sq, ub)]

move_piece(P, f, t, ub) ==
    LET piece == P.board[f]
        L == P.piece_position[piece]
        i == IndexOf(L, Len(L), f)
        change == {f, t}
    IN [P EXCEPT !.board = [@ EXCEPT ![f] = NO_PIECE, ![t] = piece],
                 !.by_color_bb[ColorOf(piece, ub)] = SymDiff(@, change),
                 !.by_piece_kind_bb[KindOf(piece, ub)] = SymDiff(@, change),
                 !.piece_position[piece] = IF i > 0 THEN [L EXCEPT ![i] = t] ELSE L,
                 !.zobrist_hash = ToggleKey(ToggleKey(@, piece, f, ub), piece, t, ub)]

change_current_side(P) ==
    [P EXCEPT !.zobrist_hash = flip_side(@), !.current_side = Opp(@)]

set_enpassant_square(P, sq) == [P EXCEPT !.enpassant_square = sq]

\* Bitboard accessors.
pieces(P) == P.by_color_bb[WHITE] \cup P.by_color_bb[BLACK]
pieces_ck(P, c, k) == P.by_color_bb[c] \cap P.by_piece_kind_bb[k]
no_pieces(P, piece) == Len(P.piece_position[piece])

\* The castling-rights updates of an ordinary move (position.cpp 545-558).
CastlingAfter(rights, side, moved_piece, captured_pc, move) ==
    LET r1 == IF get_piece_kind(moved_piece) = KING
              THEN rights \cap CastlingNot(CASTLING_RIGHTS(side)) ELSE rights
        r2 == IF get_piece_kind(moved_piece) = ROOK /\ from(move) = KING_SIDE_ROOK_SQUARE(side)
              THEN r1 \cap CastlingNot(CASTLING_RIGHTS(side) \cap KING_CASTLING) ELSE r1
        r3 == IF get_piece_kind(moved_piece) = ROOK /\ from(move) = QUEEN_SIDE_ROOK_SQUARE(side)
              THEN r2 \cap CastlingNot(CASTLING_RIGHTS(side) \cap QUEEN_CASTLING) ELSE r2
        r4 == IF make_piece_kind(captured_pc) = ROOK /\ to(move) = KING_SIDE_ROOK_SQUARE(Opp(side))
              THEN r3 \cap CastlingNot(CASTLING_RIGHTS(Opp(side)) \cap KING_CASTLING) ELSE r3
        r5 == IF make_piece_kind(captured_pc) = ROOK /\ to(move) = QUEEN_SIDE_ROOK_SQUARE(Opp(side))
              THEN r4 \cap CastlingNot(CASTLING_RIGHTS(Opp(side)) \cap QUEEN_CASTLING) ELSE r4
    IN r5

\* do_move, castling branch (position.cpp 489-508).
DoCastling(P0, side, move, ub) ==
    LET rk == IF side = WHITE THEN RANK_1 ELSE RANK_8
        P1 == [P0 EXCEPT !.half_move_counter = 0]
        P2 == IF castling(move) = KING_CASTLING
              THEN move_piece(move_piece(P1, make_square(rk, FILE_E), make_square(rk, FILE_G), ub),
                              make_square(rk, FILE_H), make_square(rk, FILE_F), ub)
              ELSE move_piece(move_piece(P1, make_square(rk, FILE_E), make_square(rk, FILE_C), ub),
                              make_square(rk, FILE_A), make_square(rk, FILE_D), ub)
        cr == P2.castling_rights \cap CastlingNot(CASTLING_RIGHTS(side))
    IN [P2 EXCEPT !.castling_rights = cr,
                  !.zobrist_hash = set_castling(@, cr),
                  !.enpassant_square = NO_SQUARE]

\* do_move, ordinary branch (position.cpp 510-572).
DoOrdinary(P0, side, move, ub) ==
    LET moved_piece == P0.board[from(move)]
        captured_pc == P0.board[to(move)]
        isPawn == KindOf(moved_piece, ub) = PAWN
        hm == IF ~isPawn /\ make_piece_kind(captured_pc) = NO_PIECE_KIND
              THEN (P0.half_move_counter + 1) % 256 ELSE 0
        P1 == [P0 EXCEPT !.half_move_counter = hm]
        isEp == isPawn /\ to(move) = P0.enpassant_square
        captured_square == to(move) + (IF side = WHITE THEN -8 ELSE 8)
        P2 == IF isEp
              THEN remove_piece(move_piece(P1, from(move), to(move), ub), captured_square, ub)
              ELSE LET Pa == IF captured_pc # NO_PIECE
                             THEN remove_piece(P1, to(move), ub) ELSE P1
                       Pb == IF promotion(move) # NO_PIECE_KIND
                             THEN add_piece(remove_piece(Pa, from(move), ub),
                                            make_piece(side, promotion(move)), to(move))
                             ELSE move_piece(Pa, from(move), to(move), ub)
                       cr == CastlingAfter(Pb.castling_rights, side, moved_piece,
                                           captured_pc, move)
                   IN [Pb EXCEPT !.castling_rights = cr,
                                 !.zobrist_hash = set_castling(@, cr)]
        enpassant_rank == IF side = WHITE THEN RANK_4 ELSE RANK_5
        rank2 == IF side = WHITE THEN RANK_2 ELSE RANK_7
    IN IF isPawn /\ rank(from(move)) = rank2 /\ rank(to(move)) = enpassant_rank
       THEN LET sq == to(move) + (IF side = WHITE THEN -8 ELSE 8)
            IN [P2 EXCEPT !.enpassant_square = sq,
                          !.zobrist_hash = set_enpassant(@, file(sq))]
       ELSE [P2 EXCEPT !.enpassant_square = NO_SQUARE]

\* Position::do_move: the position after the move and the undo record.
do_move(P, move, ub) ==
    LET side == P.current_side
        Pa == change_current_side(P)
        Pb == [Pa EXCEPT !.ply_counter = @ + 1,
                         !.zobrist_hash = clear_enpassant(@)]
        isCastling == castling(move) # NO_CASTLING
        Pc == IF isCastling THEN DoCastling(Pb, side, move, ub)
                            ELSE DoOrdinary(Pb, side, move, ub)
        captured == IF isCastling THEN NO_PIECE_KIND
                    ELSE make_piece_kind(P.board[to(move)])
        wasEp == ~isCastling /\ KindOf(P.board[from(move)], ub) = PAWN
                 /\ to(move) = P.enpassant_square
    IN [pos |-> [Pc EXCEPT !.history = Append(@, get_key(Pc.zobrist_hash))],
        info |-> create_moveinfo(captured, P.castling_rights, P.enpassant_square,
                                 wasEp, P.half_move_counter)]

\* Position::undo_move.
undo_move(P, move, moveinfo, ub) ==
    LET Pa == change_current_side(P)
        side == Pa.current_side
        cr == last_castling(moveinfo)
        ep == last_enpassant_square(moveinfo)
        Pb == [Pa EXCEPT !.ply_counter = @ - 1,
                         !.castling_rights = cr,
                         !.enpassant_square = ep,
                         !.zobrist_hash =
                             IF ep = NO_SQUARE
                             THEN clear_enpassant(set_castling(@, cr))
                             ELSE set_enpassant(set_castling(@, cr), file(ep)),
                         !.half_move_counter = half_move_counter_of(moveinfo)]
        rk == IF side = WHITE THEN RANK_1 ELSE RANK_8
        Pc == IF castling(move) # NO_CASTLING
              THEN IF castling(move) = KING_CASTLING
                   THEN move_piece(move_piece(Pb, make_square(rk, FILE_G), make_square(rk, FILE_E), ub),
                                   make_square(rk, FILE_F), make_square(rk, FILE_H), ub)
                   ELSE move_piece(move_piece(Pb, make_square(rk, FILE_C), make_square(rk, FILE_E), ub),
                                   make_square(rk, FILE_D), make_square(rk, FILE_A), ub)
              ELSE LET captured == make_piece(Opp(side), captured_piece(moveinfo))
                       captured_square == to(move) + (IF side = WHITE THEN -8 ELSE 8)
                       P1 == IF enpassant(moveinfo)
                             THEN add_piece(Pb, make_piece(Opp(side), PAWN), captured_square)
                             ELSE Pb
                       P2 == IF promotion(move) # NO_PIECE_KIND
                             THEN remove_piece(add_piece(P1, make_piece(side, PAWN), from(move)),
                                               to(move), ub)
                             ELSE move_piece(P1, to(move), from(move), ub)
                   IN IF captured # NO_PIECE THEN add_piece(P2, captured, to(move)) ELSE P2
    IN [Pc EXCEPT !.history = SubSeq(@, 1, Len(@) - 1)]

\* Position::do_null_move and its undo record.
do_null_move(P) ==
    LET Pa == change_current_side(P)
    IN [pos |-> [Pa EXCEPT !.ply_counter = @ + 1,
                           !.half_move_counter = (@ + 1) % 256,
                           !.enpassant_square = NO_SQUARE,
                           !.zobrist_hash = clear_enpassant(@)],
        info |-> create_moveinfo(NO_PIECE_KIND, NO_CASTLING, P.enpassant_square, FALSE, 0)]

\* Position::undo_null_move.
undo_null_move(P, moveinfo) ==
    LET Pa == change_current_side(P)
        ep == last_enpassant_square(moveinfo)
    IN [Pa EXCEPT !.ply_counter = @ - 1,
                  !.half_move_counter = (@ - 1) % 256,
                  !.enpassant_square = ep,
                  !.zobrist_hash = IF ep # NO_SQUARE THEN set_enpassant(@, file(ep)) ELSE @]

(***************************************************************************)
(* Attacks and check (bitboard.h attack tables, Position::is_in_check).    *)
(***************************************************************************)
Abs(x) == IF x < 0 THEN -x ELSE x
Sgn(x) == IF x < 0 THEN -1 ELSE IF x > 0 THEN 1 ELSE 0

KnightStep(a, b) ==
    LET df == Abs(file(a) - file(b))
        dr == Abs(rank(a) - rank(b))
    IN (df = 1 /\ dr = 2) \/ (df = 2 /\ dr = 1)

KingStep(a, b) ==
    a # b /\ Abs(file(a) - file(b)) <= 1 /\ Abs(rank(a) - rank(b)) <= 1

\* A pawn of colour c standing on p attacks sq.
PawnAttacks(p, c, sq) ==
    Abs(file(p) - file(sq)) = 1 /\ rank(sq) = rank(p) + (IF c = WHITE THEN 1 ELSE -1)

OnDiagonal(a, b) == a # b /\ Abs(file(a) - file(b)) = Abs(rank(a) - rank(b))
OnLine(a, b) == a # b /\ (file(a) = file(b) \/ rank(a) = rank(b))

\* The squares strictly between a and b on their common line or diagonal.
Between(a, b) ==
    LET sf == Sgn(file(b) - file(a))
        sr == Sgn(rank(b) - rank(a))
        n == IF file(a) = file(b) THEN Abs(rank(b) - rank(a)) ELSE Abs(file(b) - file(a))
    IN {make_square(rank(a) + i * sr, file(a) + i * sf) : i \in 1..(n - 1)}

\* slider_attack<kind>(a, occ) contains b.
SliderAttack(kind, a, b, occ) ==
    /\ \/ kind \in {BISHOP, QUEEN} /\ OnDiagonal(a, b)
       \/ kind \in {ROOK, QUEEN} /\ OnLine(a, b)
    /\ Between(a, b) \cap occ = {}

\* Square sq is attacked by a piece of the sets E (E[k]: squares of the
\* attacker's pieces of kind k), the attacker being colour c, under occupancy occ.
AttackedBy(sq, c, occ, E) ==
    \/ \E p \in E[PAWN] : PawnAttacks(p, c, sq)
    \/ \E p \in E[KNIGHT] : KnightStep(p, sq)
    \/ \E p \in E[BISHOP] \cup E[QUEEN] : SliderAttack(BISHOP, p, sq, occ)
    \/ \E p \in E[ROOK] \cup E[QUEEN] : SliderAttack(ROOK, p, sq, occ)
    \/ \E p \in E[KING] : KingStep(p, sq)

piece_position_of(P, piece) ==
    IF Len(P.piece_position[piece]) > 0 THEN P.piece_position[piece][1] ELSE NO_SQUARE

\* Position::is_in_check: pawn, knight and slider attacks on side's king.
is_in_check(P, side) ==
    LET ksq == piece_position_of(P, make_piece(side, KING))
        E == [k \in PieceKinds |->
                 IF k = KING THEN {} ELSE pieces_ck(P, Opp(side), k)]
    IN ksq # NO_SQUARE /\ AttackedBy(ksq, Opp(side), pieces(P), E)

(***************************************************************************)
(* Move generation (movegen.h, not part of the sources at hand): the legal *)
(* moves of the side to move, from the occupancy bitboards: pushes, double *)
(* pushes, captures (also onto the stored en-passant square), one move per *)
(* promotion kind, piece moves, and castling when the right is set, the    *)
(* squares between king and rook are empty and the king's square, the      *)
(* square it crosses and the square it lands on are not attacked.          *)
(***************************************************************************)
PromotionKinds == {KNIGHT, BISHOP, ROOK, QUEEN}

\* The king of `side` is safe once the piece on f stands on t and the piece
\* on capsq is gone.
SafeAfter(P, side, f, t, capsq) ==
    LET occ2 == (pieces(P) \ {f, capsq}) \cup {t}
        E == [k \in PieceKinds |-> pieces_ck(P, Opp(side), k) \ {capsq, t}]
        k0 == piece_position_of(P, make_piece(side, KING))
        ksq == IF f = k0 THEN t ELSE k0
    IN ksq = NO_SQUARE \/ ~AttackedBy(ksq, Opp(side), occ2, E)

PawnMoves(P, side, f) ==
    LET dir == IF side = WHITE THEN 1 ELSE -1
        occ == pieces(P)
        enemy == P.by_color_bb[Opp(side)]
        lastRank == IF side = WHITE THEN RANK_8 ELSE RANK_1
        rank2 == IF side = WHITE THEN RANK_2 ELSE RANK_7
        one == f + 8 * dir
        two == f + 16 * dir
        pushes == (IF one \in Squares /\ one \notin occ THEN {one} ELSE {})
                  \cup (IF rank(f) = rank2 /\ one \notin occ /\ two \notin occ
                        THEN {two} ELSE {})
        caps == {t \in Squares : PawnAttacks(f, side, t)
                                 /\ (t \in enemy \/ t = P.enpassant_square)}
        CapSq(t) == IF t \in caps /\ t \notin enemy THEN t - 8 * dir ELSE t
        ok == {t \in pushes \cup caps : SafeAfter(P, side, f, t, CapSq(t))}
    IN UNION {IF rank(t) = lastRank
              THEN {create_promotion(f, t, k) : k \in PromotionKinds}
              ELSE {create_move(f, t)} : t \in ok}

PieceMoves(P, side, kind, f) ==
    LET occ == pieces(P)
        own == P.by_color_bb[side]
        targets == {t \in Squares \ own :
                       CASE kind = KNIGHT -> KnightStep(f, t)
                         [] kind = KING -> KingStep(f, t)
                         [] OTHER -> SliderAttack(kind, f, t, occ)}
    IN {create_move(f, t) : t \in {u \in targets : SafeAfter(P, side, f, u, u)}}

CastlingMoves(P, side) ==
    LET rk == IF side = WHITE THEN RANK_1 ELSE RANK_8
        occ == pieces(P)
        E == [k \in PieceKinds |-> pieces_ck(P, Opp(side), k)]
        Free(fs) == \A fl \in fs : make_square(rk, fl) \notin occ
        Safe(fs) == \A fl \in fs : ~AttackedBy(make_square(rk, fl), Opp(side), occ, E)
    IN (IF (CASTLING_RIGHTS(side) \cap KING_CASTLING) \subseteq P.castling_rights
           /\ Free({FILE_F, FILE_G}) /\ Safe({FILE_E, FILE_F, FILE_G})
        THEN {create_castling(KING_CASTLING)} ELSE {})
       \cup
       (IF (CASTLING_RIGHTS(side) \cap QUEEN_CASTLING) \subseteq P.castling_rights
           /\ Free({1, FILE_C, FILE_D}) /\ Safe({FILE_E, FILE_D, FILE_C})
        THEN {create_castling(QUEEN_CASTLING)} ELSE {})

generate_moves(P) ==
    LET side == P.current_side
    IN UNION {PawnMoves(P, side, f) : f \in pieces_ck(P, side, PAWN)}
       \cup UNION {UNION {PieceMoves(P, side, k, f) : f \in pieces_ck(P, side, k)} :
                   k \in PieceKinds \ {PAWN}}
       \cup CastlingMoves(P, side)

(***************************************************************************)
(* Position::Position(std::string fen).  A FEN is given as its six fields, *)
(* the board, castling and en-passant fields as their characters.          *)
(***************************************************************************)
PieceChars == <<"P", "N", "B", "R", "Q", "K", "p", "n", "b", "r", "q", "k">>
DigitChars == <<"0", "1", "2", "3", "4", "5", "6", "7", "8", "9">>
FileChars == <<"a", "b", "c", "d", "e", "f", "g", "h">>

CharIndex(chars, c) == CHOOSE i \in 1..Len(chars) : chars[i] = c
IsChar(chars, c) == \E i \in 1..Len(chars) : chars[i] = c

notationToSquare(notation) ==
    make_square(CharIndex(DigitChars, notation[2]) - 2, CharIndex(FileChars, notation[1]) - 1)

EmptyPosition ==
    [board |-> [sq \in Squares |-> NO_PIECE],
     by_color_bb |-> [c \in Colors |-> {}],
     by_piece_kind_bb |-> [k \in PieceKinds |-> {}],
     piece_position |-> [p \in 0..B_KING |-> <<>>],
     current_side |-> WHITE,
     castling_rights |-> NO_CASTLING,
     enpassant_square |-> NO_SQUARE,
     half_move_counter |-> 0,
     ply_counter |-> 0,
     zobrist_hash |-> EmptyKey,
     history |-> <<>>]

\* The board field, read from character i on with the cursor on `square`.
RECURSIVE PlaceBoard(_, _, _, _)
PlaceBoard(P, token, i, square) ==
    IF i > Len(token) THEN P
    ELSE LET c == token[i]
         IN IF c = "/" THEN PlaceBoard(P, token, i + 1, square - 16)
            ELSE IF IsChar(DigitChars, c)
            THEN PlaceBoard(P, token, i + 1, square + CharIndex(DigitChars, c) - 1)
            ELSE LET piece == CharIndex(PieceChars, c)
                 IN PlaceBoard([P EXCEPT !.board[square] = piece,
                                         !.by_color_bb[get_color(piece)] = @ \cup {square},
                                         !.by_piece_kind_bb[get_piece_kind(piece)] = @ \cup {square},
                                         !.piece_position[piece] = Append(@, square)],
                               token, i + 1, square + 1)

\* operator>>(int): the number a decimal text denotes.
RECURSIVE FromDecimal(_)
FromDecimal(text) ==
    IF text = <<>> THEN 0
    ELSE 10 * FromDecimal(SubSeq(text, 1, Len(text) - 1))
         + CharIndex(DigitChars, text[Len(text)]) - 1

\* operator<<(int): the decimal text of a number >= 0.
RECURSIVE ToDecimal(_)
ToDecimal(n) ==
    IF n < 10 THEN <<DigitChars[n + 1]>>
    ELSE Append(ToDecimal(n \div 10), DigitChars[(n % 10) + 1])

CastlingOfChar(c) ==
    CASE c = "K" -> {W_OO} [] c = "Q" -> {W_OOO} [] c = "k" -> {B_OO}
      [] c = "q" -> {B_OOO} [] OTHER -> {}

\* HashKey::init.
hash_init(P) ==
    LET pawns == {p \in Pieces : get_piece_kind(p) = PAWN}
        Atoms(ps) == UNION {{HASH_PIECE(p, P.piece_position[p][i]) :
                                i \in 1..Len(P.piece_position[p])} : p \in ps}
        z1 == [EmptyKey EXCEPT !.color_key = IF P.current_side = WHITE THEN {HASH_TURN} ELSE {},
                               !.pawn_key = Atoms(pawns),
                               !.piece_key = Atoms(Pieces \ pawns)]
        z2 == set_castling(z1, P.castling_rights)
    IN IF P.enpassant_square # NO_SQUARE
       THEN set_enpassant(z2, file(P.enpassant_square)) ELSE z2

PositionOfFen(fenstr) ==
    LET P1 == PlaceBoard(EmptyPosition, fenstr.board, 1, SQ_A8)
        side == IF fenstr.side = "w" THEN WHITE ELSE BLACK
        P2 == [P1 EXCEPT !.current_side = side,
                         !.castling_rights = UNION {CastlingOfChar(fenstr.castling[i]) :
                                                       i \in 1..Len(fenstr.castling)},
                         !.enpassant_square = IF fenstr.ep = <<"-">> THEN NO_SQUARE
                                              ELSE notationToSquare(fenstr.ep),
                         !.half_move_counter = FromDecimal(fenstr.halfmove) % 256,
                         !.ply_counter = 2 * FromDecimal(fenstr.fullmove) - 1
                                         + Bool(side = BLACK)]
        z == hash_init(P2)
    IN [P2 EXCEPT !.zobrist_hash = z, !.history = <<get_key(z)>>]

\* One rank of the board field, from file f on, after `counter` empty squares.
RECURSIVE FenRank(_, _, _, _)
FenRank(P, r, f, counter) ==
    LET flush == IF counter > 0 THEN <<DigitChars[counter + 1]>> ELSE <<>>
    IN IF f > FILE_H THEN flush
       ELSE LET piece == P.board[make_square(r, f)]
            IN IF piece = NO_PIECE THEN FenRank(P, r, f + 1, counter + 1)
               ELSE flush \o <<PieceChars[piece]>> \o FenRank(P, r, f + 1, 0)

RECURSIVE FenBoard(_, _)
FenBoard(P, r) ==
    FenRank(P, r, FILE_A, 0)
        \o (IF r > 0 THEN <<"/">> \o FenBoard(P, r - 1) ELSE <<>>)

\* Position::fen, field by field.
fen(P) ==
    LET flag(right, c) == IF right \in P.castling_rights THEN <<c>> ELSE <<>>
    IN [board |-> FenBoard(P, RANK_8),
        side |-> IF P.current_side = WHITE THEN "w" ELSE "b",
        castling |-> IF P.castling_rights # NO_CASTLING
                     THEN flag(W_OO, "K") \o flag(W_OOO, "Q") \o flag(B_OO, "k")
                          \o flag(B_OOO, "q")
                     ELSE <<"-">>,
        ep |-> IF P.enpassant_square # NO_SQUARE
               THEN <<FileChars[file(P.enpassant_square) + 1],
                      DigitChars[rank(P.enpassant_square) + 2]>>
               ELSE <<"-">>,
        halfmove |-> ToDecimal(P.half_move_counter),
        fullmove |-> ToDecimal((P.ply_counter - 1) \div 2 + 1)]

\* rnbqkbnr/pppppppp/8/8/8/8/PPPPPPPP/RNBQKBNR w KQkq - 0 1
STARTPOS_FEN ==
    [board |-> <<"r", "n", "b", "q", "k", "b", "n", "r", "/", "p", "p", "p", "p", "p", "p", "p", "p", "/", "8", "/", "8", "/", "8", "/", "8", "/", "P", "P", "P", "P", "P", "P", "P", "P", "/", "R", "N", "B", "Q", "K", "B", "N", "R">>,
     side |-> "w", castling |-> <<"K", "Q", "k", "q">>, ep |-> <<"-">>, halfmove |-> <<"0">>, fullmove |-> <<"1">>]

\* r3k2r/8/8/8/8/8/8/R3K2R w KQkq - 0 1
FenCastling ==
    [board |-> <<"r", "3", "k", "2", "r", "/", "8", "/", "8", "/", "8", "/", "8", "/", "8", "/", "8", "/", "R", "3", "K", "2", "R">>,
     side |-> "w", castling |-> <<"K", "Q", "k", "q">>, ep |-> <<"-">>, halfmove |-> <<"0">>, fullmove |-> <<"1">>]

\* 4k3/2p5/8/3pPp2/8/8/6P1/4K3 w - f6 0 3
FenEnPassant ==
    [board |-> <<"4", "k", "3", "/", "2", "p", "5", "/", "8", "/", "3", "p", "P", "p", "2", "/", "8", "/", "8", "/", "6", "P", "1", "/", "4", "K", "3">>,
     side |-> "w", castling |-> <<"-">>, ep |-> <<"f", "6">>, halfmove |-> <<"0">>, fullmove |-> <<"3">>]

\* 4k3/6P1/8/8/8/8/Pp6/R3K3 b Q - 0 1
FenPromotion ==
    [board |-> <<"4", "k", "3", "/", "6", "P", "1", "/", "8", "/", "8", "/", "8", "/", "8", "/", "P", "p", "6", "/", "R", "3", "K", "3">>,
     side |-> "b", castling |-> <<"Q">>, ep |-> <<"-">>, halfmove |-> <<"0">>, fullmove |-> <<"1">>]

\* 8/8/8/8/8/2k5/1n6/K1B5 w - - 99 60
FenMinor ==
    [board |-> <<"8", "/", "8", "/", "8", "/", "8", "/", "8", "/", "2", "k", "5", "/", "1", "n", "6", "/", "K", "1", "B", "5">>,
     side |-> "w", castling |-> <<"-">>, ep |-> <<"-">>, halfmove |-> <<"9", "9">>, fullmove |-> <<"6", "0">>]

\* 8/8/8/8/8/8/2k5/K2N4 b - - 0 1
FenKnight ==
    [board |-> <<"8", "/", "8", "/", "8", "/", "8", "/", "8", "/", "8", "/", "2", "k", "5", "/", "K", "2", "N", "4">>,
     side |-> "b", castling |-> <<"-">>, ep |-> <<"-">>, halfmove |-> <<"0">>, fullmove |-> <<"1">>]

\* 8/8/8/8/8/2k5/1b6/K1B5 w - - 0 1
FenBishops ==
    [board |-> <<"8", "/", "8", "/", "8", "/", "8", "/", "8", "/", "2", "k", "5", "/", "1", "b", "6", "/", "K", "1", "B", "5">>,
     side |-> "w", castling |-> <<"-">>, ep |-> <<"-">>, halfmove |-> <<"0">>, fullmove |-> <<"1">>]

\* 8/8/8/8/8/8/2k5/K1NN4 b - - 0 1
FenTwoKnights ==
    [board |-> <<"8", "/", "8", "/", "8", "/", "8", "/", "8", "/", "8", "/", "2", "k", "5", "/", "K", "1", "N", "N", "4">>,
     side |-> "b", castling |-> <<"-">>, ep |-> <<"-">>, halfmove |-> <<"0">>, fullmove |-> <<"1">>]

\* 8/8/8/8/8/2k5/P7/K7 w - - 0 1
FenPawn ==
    [board |-> <<"8", "/", "8", "/", "8", "/", "8", "/", "8", "/", "2", "k", "5", "/", "P", "7", "/", "K", "7">>,
     side |-> "w", castling |-> <<"-">>, ep |-> <<"-">>, halfmove |-> <<"0">>, fullmove |-> <<"1">>]


(***************************************************************************)
(* Draw detection (position.cpp 217-256) and the from-scratch key the      *)
(* Polyglot book uses (hash_position.cpp).                                 *)
(***************************************************************************)
\* The loop of threefold_repetition from 0-based index i down, `count` so far.
RECURSIVE RepetitionLoop(_, _, _)
RepetitionLoop(P, i, count) ==
    IF i < 0 THEN FALSE
    ELSE IF P.history[i + 1] = get_key(P.zobrist_hash)
         THEN IF count + 1 = 3 THEN TRUE ELSE RepetitionLoop(P, i - 1, count + 1)
         ELSE RepetitionLoop(P, i - 1, count)

\* The loop started at the newest history entry, which is the current key.
threefold_repetition_from_newest(P) == RepetitionLoop(P, Len(P.history) - 1, 1)

threefold_repetition(P) == RepetitionLoop(P, Len(P.history) - 2, 1)

rule50(P) == P.half_move_counter >= 100

create_pcv(wp, wn, wb, wr, wq, bp, bn, bb, br, bq) ==
    <<wp, wn, wb, wr, wq, bp, bn, bb, br, bq>>

get_pcv(P) ==
    create_pcv(no_pieces(P, W_PAWN), no_pieces(P, W_KNIGHT), no_pieces(P, W_BISHOP),
               no_pieces(P, W_ROOK), no_pieces(P, W_QUEEN), no_pieces(P, B_PAWN),
               no_pieces(P, B_KNIGHT), no_pieces(P, B_BISHOP), no_pieces(P, B_ROOK),
               no_pieces(P, B_QUEEN))

notEnoughMaterialPCV ==
    {create_pcv(0, 0, 0, 0, 0, 0, 0, 0, 0, 0),
     create_pcv(0, 0, 0, 0, 0, 0, 1, 0, 0, 0),
     create_pcv(0, 0, 0, 0, 0, 0, 0, 1, 0, 0),
     create_pcv(0, 1, 0, 0, 0, 0, 0, 0, 0, 0),
     create_pcv(0, 0, 1, 0, 0, 0, 0, 0, 0, 0)}

\* The table without its last row, the lone white bishop.
enough_material_short_table(P) ==
    get_pcv(P) \notin (notEnoughMaterialPCV \ {create_pcv(0, 0, 1, 0, 0, 0, 0, 0, 0, 0)})

enough_material(P) == get_pcv(P) \notin notEnoughMaterialPCV

is_draw(P) == rule50(P) \/ threefold_repetition(P) \/ ~enough_material(P)

RECURSIVE XorAll(_)
XorAll(keys) ==
    IF keys = <<>> THEN {} ELSE SymDiff(Head(keys), XorAll(Tail(keys)))

hash_position(P) ==
    LET pieceAtoms == [p \in Pieces |->
                          XorAll([i \in 1..no_pieces(P, p) |->
                                     {HASH_PIECE(p, P.piece_position[p][i])}])]
        k1 == XorAll([p \in Pieces |-> pieceAtoms[p]])
        k2 == SymDiff(k1, {HASH_CASTLING(b) : b \in P.castling_rights})
        ep == P.enpassant_square
        attackers == {p \in pieces_ck(P, P.current_side, PAWN) :
                         PawnAttacks(ep, Opp(P.current_side), p)}
        k3 == IF ep # NO_SQUARE /\ attackers # {}
              THEN SymDiff(k2, {HASH_ENPASSANT(file(ep))}) ELSE k2
    IN IF P.current_side = WHITE THEN SymDiff(k3, {HASH_TURN}) ELSE k3

(***************************************************************************)
(* The state machine: a Position built from a FEN and driven, as the       *)
(* search drives it, by do_move / undo_move / do_null_move /               *)
(* undo_null_move in stack order.  stack holds the moves made and not yet  *)
(* undone, each with its undo record and the position it was made in; last *)
(* records the operation just performed, with the position a do_ was       *)
(* applied to or the position an undo_ has to restore.                     *)
(***************************************************************************)
MaxDepth == 2

\* Board, bitboards and piece lists of P describe the same placement.
Consistent(P) ==
    /\ {sq \in Squares : \E c \in Colors : \E k \in PieceKinds :
           (P.board[sq] = make_piece(c, k))
               # (sq \in P.by_color_bb[c] /\ sq \in P.by_piece_kind_bb[k])} = {}
    /\ {p \in Pieces :
           LET L == P.piece_position[p]
           IN ~ /\ \A i \in 1..Len(L) : P.board[L[i]] = p
                /\ \A i, j \in 1..Len(L) : L[i] = L[j] => i = j
                /\ Len(L) = Cardinality({sq \in Squares : P.board[sq] = p})} = {}

MaxShuffle == 8

Pos ==
    [board |-> board, by_color_bb |-> by_color_bb, by_piece_kind_bb |-> by_piece_kind_bb,
     piece_position |-> piece_position, current_side |-> current_side,
     castling_rights |-> castling_rights, enpassant_square |-> enpassant_square,
     half_move_counter |-> half_move_counter, ply_counter |-> ply_counter,
     zobrist_hash |-> zobrist_hash, history |-> history]

SetPos(Q) ==
    /\ board' = Q.board
    /\ by_color_bb' = Q.by_color_bb
    /\ by_piece_kind_bb' = Q.by_piece_kind_bb
    /\ piece_position' = Q.piece_position
    /\ current_side' = Q.current_side
    /\ castling_rights' = Q.castling_rights
    /\ enpassant_square' = Q.enpassant_square
    /\ half_move_counter' = Q.half_move_counter
    /\ ply_counter' = Q.ply_counter
    /\ zobrist_hash' = Q.zobrist_hash
    /\ history' = Q.history

InitPos(Q) ==
    /\ board = Q.board
    /\ by_color_bb = Q.by_color_bb
    /\ by_piece_kind_bb = Q.by_piece_kind_bb
    /\ piece_position = Q.piece_position
    /\ current_side = Q.current_side
    /\ castling_rights = Q.castling_rights
    /\ enpassant_square = Q.enpassant_square
    /\ half_move_counter = Q.half_move_counter
    /\ ply_counter = Q.ply_counter
    /\ zobrist_hash = Q.zobrist_hash
    /\ history = Q.history

NoOp == [op |-> "construct", move |-> 0, before |-> EmptyPosition]
NoInfo == [phase |-> "none"]
NoNote == [op |-> "none"]
NoSearch == [pc |-> "idle"]
NoBook == [pc |-> "none"]
NoUci == [pc |-> "none"]

InitFens ==
    {FenCastling, FenEnPassant, FenPromotion, FenMinor, FenKnight, FenBishops,
     FenTwoKnights, FenPawn}

Init ==
    /\ \E fenstr \in InitFens : InitPos(PositionOfFen(fenstr))
    /\ stack = <<>>
    /\ last = NoOp
    /\ mi = NoInfo
    /\ note = NoNote
    /\ book = NoBook
    /\ Uci = NoUci
    /\ srch = NoSearch

\* The colours and kinds a build may read for NO_PIECE where do_move(move)
\* or undo_move(move) touches an empty square; one fixed value elsewhere.
UBOf(touchesEmpty) ==
    IF touchesEmpty THEN UBChoices ELSE {[c |-> WHITE, k |-> KING]}

HomeRank(side) == IF side = WHITE THEN RANK_1 ELSE RANK_8

DoTouchesEmpty(P, move) ==
    LET side == P.current_side
        rk == HomeRank(side)
    IN IF castling(move) # NO_CASTLING
       THEN \/ P.board[make_square(rk, FILE_E)] = NO_PIECE
            \/ P.board[make_square(rk, IF castling(move) = KING_CASTLING
                                       THEN FILE_H ELSE FILE_A)] = NO_PIECE
       ELSE \/ P.board[from(move)] = NO_PIECE
            \/ /\ get_piece_kind(P.board[from(move)]) = PAWN
               /\ to(move) = P.enpassant_square
               /\ P.board[to(move) + (IF side = WHITE THEN -8 ELSE 8)] = NO_PIECE

UndoTouchesEmpty(P, move) ==
    LET side == Opp(P.current_side)
        rk == HomeRank(side)
    IN IF castling(move) # NO_CASTLING
       THEN \/ P.board[make_square(rk, IF castling(move) = KING_CASTLING
                                       THEN FILE_G ELSE FILE_C)] = NO_PIECE
            \/ P.board[make_square(rk, IF castling(move) = KING_CASTLING
                                       THEN FILE_F ELSE FILE_D)] = NO_PIECE
       ELSE P.board[to(move)] = NO_PIECE

\* Once board, bitboards and piece lists disagree, the fixed-size piece
\* lists can grow past their end; the machine is not followed further.
DoMove ==
    /\ Len(stack) < MaxDepth
    /\ Consistent(Pos)
    /\ \E move \in generate_moves(Pos) :
       \E ub \in UBOf(DoTouchesEmpty(Pos, move)) :
          LET r == do_move(Pos, move, ub)
          IN /\ SetPos(r.pos)
             /\ stack' = Append(stack, [move |-> move, info |-> r.info, null |-> FALSE,
                                        before |-> Pos])
             /\ last' = [op |-> "do_move", move |-> move, before |-> Pos]
    /\ UNCHANGED <<mi, note, srch, book, Uci>>

UndoMove ==
    /\ Len(stack) > 0
    /\ Consistent(Pos)
    /\ ~stack[Len(stack)].null
    /\ LET top == stack[Len(stack)]
       IN \E ub \in UBOf(UndoTouchesEmpty(Pos, top.move)) :
             /\ SetPos(undo_move(Pos, top.move, top.info, ub))
             /\ last' = [op |-> "undo_move", move |-> top.move, before |-> top.before]
    /\ stack' = SubSeq(stack, 1, Len(stack) - 1)
    /\ UNCHANGED <<mi, note, srch, book, Uci>>

\* The side to move has a knight, bishop, rook or queen.
HasNonPawnPiece(P) ==
    no_pieces(P, make_piece(P.current_side, KNIGHT))
        + no_pieces(P, make_piece(P.current_side, BISHOP))
        + no_pieces(P, make_piece(P.current_side, ROOK))
        + no_pieces(P, make_piece(P.current_side, QUEEN)) > 0

\* The search makes a null move only when the side to move is not in check
\* and has a piece besides king and pawns, and never two in a row.
DoNullMove ==
    /\ Len(stack) < MaxDepth
    /\ Consistent(Pos)
    /\ ~is_in_check(Pos, current_side)
    /\ HasNonPawnPiece(Pos)
    /\ Len(stack) > 0 => ~stack[Len(stack)].null
    /\ LET r == do_null_move(Pos)
       IN /\ SetPos(r.pos)
          /\ stack' = Append(stack, [move |-> 0, info |-> r.info, null |-> TRUE,
                                     before |-> Pos])
          /\ last' = [op |-> "do_null_move", move |-> 0, before |-> Pos]
    /\ UNCHANGED <<mi, note, srch, book, Uci>>

UndoNullMove ==
    /\ Len(stack) > 0
    /\ Consistent(Pos)
    /\ stack[Len(stack)].null
    /\ SetPos(undo_null_move(Pos, stack[Len(stack)].info))
    /\ last' = [op |-> "undo_null_move", move |-> 0, before |-> stack[Len(stack)].before]
    /\ stack' = SubSeq(stack, 1, Len(stack) - 1)
    /\ UNCHANGED <<mi, note, srch, book, Uci>>

Next == DoMove \/ UndoMove \/ DoNullMove \/ UndoNullMove

Spec == Init /\ [][Next]_vars

(***************************************************************************)
(* Repetition: the start position, with the knights shuffling between      *)
(* their home squares and c3, f3, c6, f6.                                  *)
(***************************************************************************)
ShuffleSquares == {1, 18, 6, 21, 57, 42, 62, 45}

InitRep ==
    /\ InitPos(PositionOfFen(STARTPOS_FEN))
    /\ stack = <<>>
    /\ last = NoOp
    /\ mi = NoInfo
    /\ note = NoNote
    /\ book = NoBook
    /\ Uci = NoUci
    /\ srch = NoSearch

Shuffle ==
    /\ Len(stack) < MaxShuffle
    /\ Consistent(Pos)
    /\ \E move \in generate_moves(Pos) :
          /\ from(move) \in ShuffleSquares /\ to(move) \in ShuffleSquares
          /\ \E ub \in UBOf(DoTouchesEmpty(Pos, move)) :
                LET r == do_move(Pos, move, ub)
                IN /\ SetPos(r.pos)
                   /\ stack' = Append(stack, [move |-> move, info |-> r.info,
                                              null |-> FALSE, before |-> Pos])
                   /\ last' = [op |-> "do_move", move |-> move, before |-> Pos]
    /\ UNCHANGED <<mi, note, srch, book, Uci>>

SpecRep == InitRep /\ [][Shuffle]_vars

(***************************************************************************)
(* Move notation.  A text is the sequence of its characters.               *)
(***************************************************************************)
NO_MOVE == 0
KING_CASTLING_MOVE == create_castling(KING_CASTLING)
QUEEN_CASTLING_MOVE == create_castling(QUEEN_CASTLING)

\* c - 'a' and c - '1' for the characters of a square.
FileOfChar(c) == CharIndex(FileChars, c) - 1
RankOfChar(c) == CharIndex(DigitChars, c) - 2

squareToNotation(sq) == <<FileChars[file(sq) + 1], DigitChars[rank(sq) + 2]>>

uci(P, move) ==
    LET promotions == <<" ", " ", "n", "b", "r", "q", " ">>
    IN IF castling(move) \cap KING_CASTLING # {}
       THEN (IF P.current_side = WHITE THEN <<"e", "1", "g", "1">> ELSE <<"e", "8", "g", "8">>)
       ELSE IF castling(move) \cap QUEEN_CASTLING # {}
       THEN (IF P.current_side = WHITE THEN <<"e", "1", "c", "1">> ELSE <<"e", "8", "c", "8">>)
       ELSE squareToNotation(from(move)) \o squareToNotation(to(move))
            \o (IF promotion(move) # NO_PIECE_KIND
                THEN <<promotions[promotion(move) + 1]>> ELSE <<>>)

\* The promotion letters parse_uci accepts; any other fifth character throws.
UciPromotion(c) ==
    CASE c \in {"n", "N"} -> KNIGHT [] c \in {"b", "B"} -> BISHOP
      [] c \in {"r", "R"} -> ROOK [] c \in {"q", "Q"} -> QUEEN
      [] OTHER -> NO_PIECE_KIND

parse_uci_throws(str) == Len(str) > 4 /\ UciPromotion(str[5]) = NO_PIECE_KIND

\* parse_uci with the castling rewrite done for the white king only.
parse_uci_white_only(P, str) ==
    LET f == make_square(RankOfChar(str[2]), FileOfChar(str[1]))
        t == make_square(RankOfChar(str[4]), FileOfChar(str[3]))
        king == make_piece_kind(P.board[f]) = KING
    IN IF king /\ f = make_square(RANK_1, FILE_E) /\ t = make_square(RANK_1, FILE_C)
       THEN create_castling(QUEEN_CASTLING)
       ELSE IF king /\ f = make_square(RANK_1, FILE_E) /\ t = make_square(RANK_1, FILE_G)
       THEN create_castling(KING_CASTLING)
       ELSE create_promotion(f, t, IF Len(str) > 4 THEN UciPromotion(str[5])
                                   ELSE NO_PIECE_KIND)

\* The value parse_uci returns when it does not throw.
parse_uci(P, str) ==
    LET f == make_square(RankOfChar(str[2]), FileOfChar(str[1]))
        t == make_square(RankOfChar(str[4]), FileOfChar(str[3]))
        king == make_piece_kind(P.board[f]) = KING
        m0 == create_promotion(f, t, IF Len(str) > 4 THEN UciPromotion(str[5])
                                     ELSE NO_PIECE_KIND)
        m1 == IF king /\ f = make_square(RANK_1, FILE_E) /\ t = make_square(RANK_1, FILE_G)
              THEN create_castling(KING_CASTLING) ELSE m0
        m2 == IF king /\ f = make_square(RANK_1, FILE_E) /\ t = make_square(RANK_1, FILE_C)
              THEN create_castling(QUEEN_CASTLING) ELSE m1
        m3 == IF king /\ f = make_square(RANK_8, FILE_E) /\ t = make_square(RANK_8, FILE_G)
              THEN create_castling(KING_CASTLING) ELSE m2
    IN IF king /\ f = make_square(RANK_8, FILE_E) /\ t = make_square(RANK_8, FILE_C)
       THEN create_castling(QUEEN_CASTLING) ELSE m3

\* SAN_REGEX = ([NBRQK]?)([a-h]?)([1-8]?)x?([a-h][1-8])=?([nbrqkNBRQK]?)[+#]?
\* o[1..7] says which of the seven optional items are present; regex_match
\* takes the first assignment that fits, trying "present" before "absent".
SanOptions == [1..7 -> {0, 1}]

SanStart(o, i) ==
    1 + Cardinality({j \in 1..(i - 1) : o[j] = 1}) + (IF i > 4 THEN 2 ELSE 0)

SanFits(str, o) ==
    LET at(i) == str[SanStart(o, i)]
        sq == SanStart(o, 5) - 2
        rankChars == {DigitChars[d] : d \in 2..9}
    IN /\ Len(str) = SanStart(o, 8) - 1
       /\ o[1] = 1 => at(1) \in {"N", "B", "R", "Q", "K"}
       /\ o[2] = 1 => IsChar(FileChars, at(2))
       /\ o[3] = 1 => at(3) \in rankChars
       /\ o[4] = 1 => at(4) = "x"
       /\ IsChar(FileChars, str[sq]) /\ str[sq + 1] \in rankChars
       /\ o[5] = 1 => at(5) = "="
       /\ o[6] = 1 => at(6) \in {"n", "b", "r", "q", "k", "N", "B", "R", "Q", "K"}
       /\ o[7] = 1 => at(7) \in {"+", "#"}

SanOrder(o) == SumSet({2 ^ (7 - j) : j \in {k \in 1..7 : o[k] = 0}})

parse_piece_kind(c) ==
    CASE c \in {"n", "N"} -> KNIGHT [] c \in {"b", "B"} -> BISHOP
      [] c \in {"r", "R"} -> ROOK [] c \in {"q", "Q"} -> QUEEN
      [] c \in {"k", "K"} -> KING [] OTHER -> PAWN

parse_san(P, str) ==
    LET moves == generate_moves(P)
        fits == {o \in SanOptions : SanFits(str, o)}
    IN IF str \in {<<"0", "-", "0">>, <<"O", "-", "O">>}
       THEN (IF KING_CASTLING_MOVE \in moves THEN KING_CASTLING_MOVE ELSE NO_MOVE)
       ELSE IF str \in {<<"0", "-", "0", "-", "0">>, <<"O", "-", "O", "-", "O">>}
       THEN (IF QUEEN_CASTLING_MOVE \in moves THEN QUEEN_CASTLING_MOVE ELSE NO_MOVE)
       ELSE IF fits = {} THEN NO_MOVE
       ELSE LET o == CHOOSE x \in fits : \A y \in fits : SanOrder(x) <= SanOrder(y)
                moved_piece == IF o[1] = 1 THEN parse_piece_kind(str[1]) ELSE PAWN
                sq == SanStart(o, 5) - 2
                to_square == make_square(RankOfChar(str[sq + 1]), FileOfChar(str[sq]))
                promo == IF o[6] = 1 THEN parse_piece_kind(str[SanStart(o, 6)])
                         ELSE NO_PIECE_KIND
                matching ==
                    {m \in moves :
                        /\ make_piece_kind(P.board[from(m)]) = moved_piece
                        /\ o[2] = 1 => file(from(m)) = FileOfChar(str[SanStart(o, 2)])
                        /\ o[3] = 1 => rank(from(m)) = RankOfChar(str[SanStart(o, 3)])
                        /\ to(m) = to_square
                        /\ o[6] = 1 => promotion(m) = promo}
            IN IF o[6] = 1 /\ promo \in {PAWN, KING} THEN NO_MOVE
               ELSE IF Cardinality(matching) # 1 THEN NO_MOVE
               ELSE CHOOSE m \in matching : TRUE

MaxNotationPlies == 1

NotationFens == {STARTPOS_FEN, FenCastling, FenEnPassant, FenPromotion}

InitNotation ==
    /\ \E fenstr \in NotationFens : InitPos(PositionOfFen(fenstr))
    /\ stack = <<>>
    /\ last = NoOp
    /\ mi = NoInfo
    /\ note = NoNote
    /\ book = NoBook
    /\ Uci = NoUci
    /\ srch = NoSearch

\* Uci::position_command: the moves of the game so far are played.
Play ==
    /\ Len(stack) < MaxNotationPlies
    /\ \E move \in generate_moves(Pos) :
       \E ub \in UBOf(DoTouchesEmpty(Pos, move)) :
          LET r == do_move(Pos, move, ub)
          IN /\ SetPos(r.pos)
             /\ stack' = Append(stack, [move |-> move, info |-> r.info, null |-> FALSE,
                                        before |-> Pos])
             /\ last' = [op |-> "do_move", move |-> move, before |-> Pos]
    /\ note' = NoNote
    /\ UNCHANGED <<mi, srch, book, Uci>>

PosUnchanged ==
    UNCHANGED <<board, by_color_bb, by_piece_kind_bb, piece_position, current_side,
                castling_rights, enpassant_square, half_move_counter, ply_counter,
                zobrist_hash, history>>

\* A generated move is written with uci and the text is read with parse_uci.
\* note records one notation call on the position it was made on.
WriteUci ==
    /\ note = NoNote
    /\ \E move \in generate_moves(Pos) :
          note' = [op |-> "uci", move |-> move, text |-> uci(Pos, move),
                   thrown |-> parse_uci_throws(uci(Pos, move)),
                   result |-> parse_uci(Pos, uci(Pos, move))]
    /\ PosUnchanged
    /\ UNCHANGED <<stack, last, mi, srch, book, Uci>>

\* Coordinate texts over a few squares, with and without a fifth character.
UciSquares == {SQ_A1, SQ_A8, 8, 9, 12, 28, 36, 4, 2, 6, 60, 62, 54, 51}
UciInputs ==
    LET pairs == {squareToNotation(f) \o squareToNotation(t) : f, t \in UciSquares}
    IN pairs \cup {Append(str, c) : str \in pairs, c \in {"q", "N", "k"}}

ParseUci ==
    /\ note = NoNote
    /\ \E str \in UciInputs :
          note' = [op |-> "parse_uci", move |-> NO_MOVE, text |-> str,
                   thrown |-> parse_uci_throws(str), result |-> parse_uci(Pos, str)]
    /\ PosUnchanged
    /\ UNCHANGED <<stack, last, mi, srch, book, Uci>>

SanInputs ==
    {<<"O", "-", "O">>, <<"0", "-", "0", "-", "0">>, <<"e", "4">>, <<"e", "5">>,
     <<"N", "f", "3">>, <<"N", "g", "1", "f", "3">>, <<"N", "x", "f", "3">>,
     <<"R", "a", "2">>, <<"R", "a", "1">>, <<"R", "a", "8", "+">>, <<"K", "e", "2">>,
     <<"K", "d", "7">>, <<"e", "x", "f", "6">>, <<"e", "6">>, <<"g", "4">>,
     <<"g", "8">>, <<"g", "8", "=", "Q">>, <<"g", "8", "=", "K">>, <<"g", "8", "n", "#">>,
     <<"b", "x", "a", "1", "=", "Q">>, <<"b", "1", "=", "N">>, <<"b", "b", "1", "r">>,
     <<"x">>, <<"e", "9">>, <<"K", "K", "e", "2">>, <<"B", "b", "4">>}

ParseSan ==
    /\ note = NoNote
    /\ \E str \in SanInputs :
          note' = [op |-> "parse_san", move |-> NO_MOVE, text |-> str,
                   thrown |-> FALSE, result |-> parse_san(Pos, str)]
    /\ PosUnchanged
    /\ UNCHANGED <<stack, last, mi, srch, book, Uci>>

NextNotation == Play \/ WriteUci \/ ParseUci \/ ParseSan

SpecNotation == InitNotation /\ [][NextNotation]_vars

(***************************************************************************)
(* Search: the limits chosen by the constructor.                           *)
(***************************************************************************)
MAX_DEPTH == 40
\* 1LL << 32 is above every value of an int field of Limits; it is held as
\* the largest integer of the model, which no sampled time reaches.
INFINITE == 2147483647

\* Search::Search with the movetime test placed before the depth test.
SearchLimits_movetime_first(P, limits) ==
    IF limits.infinite THEN [search_depth |-> MAX_DEPTH, search_time |-> INFINITE]
    ELSE IF limits.movetime # 0
    THEN [search_depth |-> MAX_DEPTH, search_time |-> limits.movetime]
    ELSE IF limits.depth # 0
    THEN [search_depth |-> limits.depth, search_time |-> INFINITE]
    ELSE IF limits.timeleft[P.current_side] # 0
    THEN LET our_time == limits.timeleft[P.current_side]
             movestogo == IF limits.movestogo = 0 THEN 20 ELSE limits.movestogo
         IN [search_depth |-> MAX_DEPTH, search_time |-> our_time \div (movestogo + 1)]
    ELSE [search_depth |-> 7, search_time |-> INFINITE]

\* Search::Search: _search_depth and _search_time from the limits.
SearchLimits(P, limits) ==
    IF limits.infinite THEN [search_depth |-> MAX_DEPTH, search_time |-> INFINITE]
    ELSE IF limits.depth # 0
    THEN [search_depth |-> limits.depth, search_time |-> INFINITE]
    ELSE IF limits.movetime # 0
    THEN [search_depth |-> MAX_DEPTH, search_time |-> limits.movetime]
    ELSE IF limits.timeleft[P.current_side] # 0
    THEN LET our_time == limits.timeleft[P.current_side]
             movestogo == IF limits.movestogo = 0 THEN 20 ELSE limits.movestogo
         IN [search_depth |-> MAX_DEPTH, search_time |-> our_time \div (movestogo + 1)]
    ELSE [search_depth |-> 7, search_time |-> INFINITE]

LimitsSamples ==
    [infinite : BOOLEAN, depth : {0, 1, 3}, movetime : {0, 500},
     timeleft : [Colors -> {0, 1000, 30000}], movestogo : {0, 4, 39}]

InitLimits ==
    /\ \E fenstr \in {STARTPOS_FEN, FenPromotion} : InitPos(PositionOfFen(fenstr))
    /\ stack = <<>>
    /\ last = NoOp
    /\ mi = NoInfo
    /\ note = NoNote
    /\ book = NoBook
    /\ Uci = NoUci
    /\ srch = NoSearch

Construct ==
    /\ srch = NoSearch
    /\ \E limits \in LimitsSamples :
          srch' = [pc |-> "constructed", limits |-> limits,
                   search_depth |-> SearchLimits(Pos, limits).search_depth,
                   search_time |-> SearchLimits(Pos, limits).search_time]
    /\ PosUnchanged
    /\ UNCHANGED <<stack, last, mi, note, book, Uci>>

SpecLimits == InitLimits /\ [][Construct]_vars

(***************************************************************************)
(* Search::go, Search::search and Search::quiescence_search as a machine   *)
(* of call frames.  The searched copy `pos` is the position variables;     *)
(* srch.root is the member `position`.  A MoveList is a sequence whose     *)
(* last element is back().                                                 *)
(***************************************************************************)
INFINITY_SCORE == 10000
DRAW_SCORE == 0

lost_in(ply) == -INFINITY_SCORE + ply
win_in(ply) == -lost_in(ply)

\* PositionScorer::score for the side to move: with weights 0 the material
\* balance, with weights 1 also the files of the two kings.
score(P, weights) ==
    LET king(c) == IF no_pieces(P, make_piece(c, KING)) > 0
                   THEN file(P.piece_position[make_piece(c, KING)][1]) ELSE 0
        count(c) == no_pieces(P, make_piece(c, PAWN))
                    + 3 * no_pieces(P, make_piece(c, KNIGHT))
                    + 3 * no_pieces(P, make_piece(c, BISHOP))
                    + 5 * no_pieces(P, make_piece(c, ROOK))
                    + 9 * no_pieces(P, make_piece(c, QUEEN))
                    + weights * king(c)
    IN count(P.current_side) - count(Opp(P.current_side))

\* generate_quiescence_moves: the captures and promotions.
generate_quiescence_moves(P) ==
    {m \in generate_moves(P) :
        /\ castling(m) = NO_CASTLING
        /\ \/ P.board[to(m)] # NO_PIECE
           \/ promotion(m) # NO_PIECE_KIND
           \/ make_piece_kind(P.board[from(m)]) = PAWN /\ to(m) = P.enpassant_square}

\* MovePicker: the moves in the order get_next hands them out.
RECURSIVE MovePicker(_)
MovePicker(S) ==
    IF S = {} THEN <<>>
    ELSE LET m == CHOOSE x \in S : \A y \in S : x <= y
         IN <<m>> \o MovePicker(S \ {m})

MaxSearchDepth == 2
\* The depth of the searches in which null moves are tried.
MaxDeepDepth == 6

\* The locals of one call.  alpha0 is alpha as passed, tried the number of
\* moves taken from the move picker.
Frame(fn, allow_null_move, depth, alpha, beta) ==
    [fn |-> fn, allow_null_move |-> allow_null_move, depth |-> depth,
     alpha |-> alpha, beta |-> beta, stage |-> "enter", moves |-> <<>>,
     best |-> -INFINITY_SCORE, movelist |-> <<>>, temp_movelist |-> <<>>,
     search_full_window |-> TRUE, move |-> NO_MOVE, moveinfo |-> 0,
     alpha0 |-> alpha, standpat |-> 0, tried |-> 0]

NoRet == [set |-> FALSE, val |-> 0, movelist |-> <<>>,
          frame |-> Frame("none", FALSE, 0, 0, 0)]

Top == srch.frames[Len(srch.frames)]
SetTop(s, f) == [s EXCEPT !.frames[Len(s.frames)] = f]
Push(s, f) == [s EXCEPT !.frames = Append(@, f)]
\* `return val` from the top frame, movelist being its out-parameter.
Return(s, val, movelist) ==
    [s EXCEPT !.frames = SubSeq(@, 1, Len(@) - 1),
              !.ret = [set |-> TRUE, val |-> val, movelist |-> movelist,
                       frame |-> s.frames[Len(s.frames)]]]

\* SearchInfo::update_killers: two slots for each ply; a new killer goes to
\* slot 0 and moves the old one to slot 1, unless it is in slot 0 already.
update_killers(killers, ply, move) ==
    IF killers[ply + 1][1] = move THEN killers
    ELSE [killers EXCEPT ![ply + 1] = <<move, @[1]>>]

\* SearchInfo::update_history: history[side][from][to] += depth.
update_history(hist, side, f, t, depth) ==
    [k \in DOMAIN hist \cup {<<side, f, t>>} |->
        IF k = <<side, f, t>>
        THEN (IF k \in DOMAIN hist THEN hist[k] ELSE 0) + depth
        ELSE hist[k]]

\* movelist = MoveList(temp_movelist); movelist.push_back(move).
push_back(temp_movelist, move) == Append(temp_movelist, move)

\* 7k/5Q2/6K1/8/8/8/8/8 b - - 0 1
FenStalemate ==
    [board |-> <<"7", "k", "/", "5", "Q", "2", "/", "6", "K", "1", "/", "8", "/", "8", "/", "8", "/", "8", "/", "8">>,
     side |-> "b", castling |-> <<"-">>, ep |-> <<"-">>, halfmove |-> <<"0">>, fullmove |-> <<"1">>]

\* 7k/8/6K1/8/8/8/8/R7 w - - 0 1
FenMateInOne ==
    [board |-> <<"7", "k", "/", "8", "/", "6", "K", "1", "/", "8", "/", "8", "/", "8", "/", "8", "/", "R", "7">>,
     side |-> "w", castling |-> <<"-">>, ep |-> <<"-">>, halfmove |-> <<"0">>, fullmove |-> <<"1">>]

\* 8/8/8/8/8/2k5/P7/K7 w - - 100 80
FenFifty ==
    [board |-> <<"8", "/", "8", "/", "8", "/", "8", "/", "8", "/", "2", "k", "5", "/", "P", "7", "/", "K", "7">>,
     side |-> "w", castling |-> <<"-">>, ep |-> <<"-">>, halfmove |-> <<"1", "0", "0">>, fullmove |-> <<"8", "0">>]

\* 4k3/8/8/8/8/8/Pp6/1K6 b - - 0 1
FenBlockedPawn ==
    [board |-> <<"4", "k", "3", "/", "8", "/", "8", "/", "8", "/", "8", "/", "8", "/", "P", "p", "6", "/", "1", "K", "6">>,
     side |-> "b", castling |-> <<"-">>, ep |-> <<"-">>, halfmove |-> <<"0">>, fullmove |-> <<"1">>]

\* 6K1/3p4/8/4P3/8/8/8/k7 b - - 0 1
FenDoublePush ==
    [board |-> <<"6", "K", "1", "/", "3", "p", "4", "/", "8", "/", "4", "P", "3", "/", "8", "/", "8", "/", "8", "/", "k", "7">>,
     side |-> "b", castling |-> <<"-">>, ep |-> <<"-">>, halfmove |-> <<"0">>, fullmove |-> <<"1">>]

SearchFens ==
    {FenPawn, FenKnight, FenMinor, FenStalemate, FenMateInOne, FenFifty, FenBlockedPawn,
     FenDoublePush}

\* Uci::go_command: what "go depth d", "go movetime t" and a trailing
\* "searchmoves m" leave in Limits; parse_move yields a move of the position.
GoLimits(P) ==
    {[infinite |-> FALSE, depth |-> d, movetime |-> t, nodes |-> 0,
      timeleft |-> [c \in Colors |-> 0], movestogo |-> 0, searchmoves |-> sm] :
        d \in 0..MaxDeepDepth, t \in {0, 500},
        sm \in {<<>>} \cup {<<m>> : m \in {x \in generate_moves(P) :
                                             \A y \in generate_moves(P) : y <= x}}}

\* The constructor's initialiser list leaves check_limits_counter out: the
\* member holds the reload value of check_limits or zeroed storage when go
\* starts.
CounterSamples == {0, 4096}

\* A Search constructed on a root position from the limits of a go command.
InitSearch ==
    /\ \E fenstr \in SearchFens : InitPos(PositionOfFen(fenstr))
    /\ stack = <<>>
    /\ last = NoOp
    /\ mi = NoInfo
    /\ note = NoNote
    /\ book = NoBook
    /\ Uci = NoUci
    /\ \E limits \in GoLimits(Pos), weights \in {0, 1} :
          /\ (limits.depth = 0) # (limits.movetime = 0)
          /\ limits.depth <= MaxSearchDepth
          /\ \E c \in CounterSamples :
             srch = [pc |-> "constructed", limits |-> limits, weights |-> weights,
                     check_limits_counter |-> c,
                     search_depth |-> SearchLimits(Pos, limits).search_depth,
                     search_time |-> SearchLimits(Pos, limits).search_time]

\* The members of a Search s on position P when go reaches its loop.
Started(s, P) ==
    [pc |-> "while", limits |-> s.limits,
     search_depth |-> s.search_depth,
     search_time |-> s.search_time, weights |-> s.weights,
     root |-> P,
     check_limits_counter |-> s.check_limits_counter, nodes_searched |-> 0,
     calls |-> 0, reached |-> 0,
     stop_search |-> FALSE, current_depth |-> 0, ply |-> 0,
     frames |-> <<>>, ret |-> NoRet, pv_list |-> <<>>, out |-> <<>>,
     killers |-> [p \in 1..(MAX_DEPTH + 1) |-> <<NO_MOVE, NO_MOVE>>],
     history |-> <<>>,
     entry |-> P, did |-> "go",
     iter |-> [depth |-> 0, result |-> 0, late |-> FALSE, stop_search |-> FALSE],
     entered |-> [stop_search |-> FALSE]]

\* Search::go up to the loop.
Go ==
    /\ srch.pc = "constructed"
    /\ srch' = Started(srch, Pos)
    /\ PosUnchanged
    /\ UNCHANGED <<stack, last, mi, note, book, Uci>>

\* Search::stop, called from the thread that reads the commands.
Stop ==
    /\ srch.pc \in {"while", "search"}
    /\ ~srch.stop_search
    /\ srch' = [srch EXCEPT !.stop_search = TRUE, !.did = "stop"]
    /\ PosUnchanged
    /\ UNCHANGED <<stack, last, mi, note, book, Uci>>

\* while (!stop_search) { _current_depth++; search<true>(pos, ...) ...
While ==
    /\ srch.pc = "while"
    /\ srch.stop_search \/ srch.limits.depth > 0 \/ srch.current_depth < MaxSearchDepth
    /\ srch' = IF srch.stop_search
               THEN [srch EXCEPT !.pc = "bestmove", !.did = "while"]
               ELSE [srch EXCEPT !.pc = "search", !.did = "while",
                                 !.current_depth = @ + 1, !.entry = Pos,
                                 !.nodes_searched = 0,
                                 !.frames = <<Frame("search", TRUE, srch.current_depth + 1,
                                                    -INFINITY_SCORE, INFINITY_SCORE)>>]
    /\ PosUnchanged
    /\ UNCHANGED <<stack, last, mi, note, book, Uci>>

\* The stand-pat steps with alpha left as it was passed.
StandPat_alpha_kept(depth, alpha, beta, standpat) ==
    IF depth <= 0 THEN [returns |-> TRUE, val |-> standpat]
    ELSE IF standpat >= beta THEN [returns |-> TRUE, val |-> beta]
    ELSE [returns |-> FALSE, val |-> alpha]

\* quiescence_search: if (depth <= 0) return standpat; if (standpat >= beta)
\* return beta; if (standpat > alpha) alpha = standpat.  val is the value
\* returned, or alpha for the move loop.
StandPat(depth, alpha, beta, standpat) ==
    IF depth <= 0 THEN [returns |-> TRUE, val |-> standpat]
    ELSE IF standpat >= beta THEN [returns |-> TRUE, val |-> beta]
    ELSE [returns |-> FALSE, val |-> IF standpat > alpha THEN standpat ELSE alpha]

\* The null-move search called with the depth of its caller.
NullMoveDepth_unreduced(depth) == depth

\* -search<false>(position, depth - 4, -beta, -alpha, temp_movelist).
NullMoveDepth(depth) == depth - 4

NullMoveCall_allowing_null_move(f) ==
    Frame("search", TRUE, NullMoveDepth(f.depth), -f.beta, -f.alpha)

\* The call made after do_null_move from the call with locals f:
\* search<false>(position, depth - 4, -beta, -alpha, temp_movelist).
NullMoveCall(f) ==
    Frame("search", FALSE, NullMoveDepth(f.depth), -f.beta, -f.alpha)

\* The test made before the null move, with the depth test weakened.
NullMoveTried_from_depth_4(P, allow_null_move, depth) ==
    /\ allow_null_move
    /\ ~is_in_check(P, P.current_side) /\ HasNonPawnPiece(P) /\ depth >= 4

\* if (allow_null_move) ... if (!is_in_check && n > 0 && depth > 4).
NullMoveTried(P, allow_null_move, depth) ==
    /\ allow_null_move
    /\ ~is_in_check(P, P.current_side) /\ HasNonPawnPiece(P) /\ depth > 4

\* Search::check_limits: the counter after the call and the value returned.
\* late stands for elapsed >= _search_time.
check_limits(s, late) ==
    IF s.check_limits_counter - 1 > 0
    THEN [check_limits_counter |-> s.check_limits_counter - 1, result |-> FALSE]
    ELSE [check_limits_counter |-> 4096,
          result |-> (s.limits.nodes > 0 /\ s.nodes_searched >= s.limits.nodes) \/ late]

\* stop_search || check_limits(): the call is made only while the flag is
\* clear.  calls counts the calls made.
Checked(s, late) ==
    IF s.stop_search THEN s
    ELSE [s EXCEPT !.check_limits_counter = check_limits(s, late).check_limits_counter,
                   !.stop_search = check_limits(s, late).result,
                   !.calls = @ + 1]

\* nodes_searched++ in quiescence_search.  reached keeps the number of calls
\* of check_limits made when nodes_searched first was limits.nodes.
Counted(s) ==
    [s EXCEPT !.nodes_searched = @ + 1,
              !.reached = IF @ = 0 /\ s.limits.nodes > 0
                             /\ s.nodes_searched + 1 >= s.limits.nodes
                          THEN s.calls ELSE @]

\* The entry of search and of quiescence_search, up to the move loop.
\* check_limits() answers TRUE when the node or time limit is reached.
Enter ==
    /\ srch.pc = "search" /\ ~srch.ret.set
    /\ srch.frames # <<>> /\ Top.stage = "enter"
    /\ Consistent(Pos)
    /\ \E late \in (IF ~srch.stop_search /\ srch.search_time < INFINITE
                        /\ srch.check_limits_counter - 1 <= 0
                     THEN BOOLEAN ELSE {FALSE}) :
       LET f == Top
           s == [Checked(srch, late) EXCEPT
                             !.did = "enter",
                             !.entered = [stop_search |-> srch.stop_search]]
           moves == generate_moves(Pos)
           is_in_check_ == is_in_check(Pos, current_side)
           standpat == score(Pos, srch.weights)
       IN IF s.stop_search
          THEN /\ srch' = Return(s, 0, <<>>)
               /\ PosUnchanged
          ELSE IF threefold_repetition(Pos) \/ rule50(Pos)
          THEN /\ srch' = Return(s, DRAW_SCORE, <<>>)
               /\ PosUnchanged
          ELSE IF moves = {}
          THEN /\ srch' = Return(s, IF ~is_in_check_ THEN DRAW_SCORE
                                    ELSE IF f.fn = "search"
                                    THEN lost_in(srch.current_depth - f.depth)
                                    ELSE lost_in(MAX_DEPTH), <<>>)
               /\ PosUnchanged
          ELSE IF f.fn = "search" /\ f.depth = 0
          THEN /\ srch' = SetTop(s, Frame("quiescence_search", FALSE, MAX_DEPTH - 1,
                                          f.alpha, f.beta))
               /\ PosUnchanged
          ELSE IF f.fn = "search"
          THEN IF NullMoveTried(Pos, f.allow_null_move, f.depth)
               THEN LET r == do_null_move(Pos)
                    IN /\ SetPos(r.pos)
                       /\ srch' = Push(SetTop([s EXCEPT !.ply = @ + 1, !.did = "do_null_move"],
                                              [f EXCEPT !.stage = "null_move",
                                                        !.moves = MovePicker(moves),
                                                        !.moveinfo = r.info]),
                                       NullMoveCall(f))
               ELSE /\ srch' = SetTop(s, [f EXCEPT !.stage = "loop",
                                                   !.moves = MovePicker(moves)])
                    /\ PosUnchanged
          ELSE IF StandPat(f.depth, f.alpha, f.beta, standpat).returns
          THEN /\ srch' = Return(SetTop(Counted(s), [f EXCEPT !.standpat = standpat]),
                                 StandPat(f.depth, f.alpha, f.beta, standpat).val, <<>>)
               /\ PosUnchanged
          ELSE /\ srch' = SetTop(Counted(s), [f EXCEPT
                             !.stage = "loop",
                             !.standpat = standpat,
                             !.alpha = StandPat(f.depth, f.alpha, f.beta, standpat).val,
                             !.moves = MovePicker(generate_quiescence_moves(Pos))])
               /\ PosUnchanged
    /\ UNCHANGED <<stack, last, mi, note, book, Uci>>

\* The head of the move loop: the end of the function, or do_move and the
\* call for the next move.
Loop ==
    /\ srch.pc = "search" /\ ~srch.ret.set
    /\ srch.frames # <<>> /\ Top.stage = "loop"
    /\ Consistent(Pos)
    /\ LET f == Top
       IN IF f.moves = <<>>
          THEN /\ srch' = IF f.fn = "search"
                          THEN Return([srch EXCEPT !.did = "return"], f.best, f.movelist)
                          ELSE Return([srch EXCEPT !.did = "return"], f.alpha, <<>>)
               /\ PosUnchanged
          ELSE LET move == Head(f.moves)
               IN \E ub \in UBOf(DoTouchesEmpty(Pos, move)) :
                    LET r == do_move(Pos, move, ub)
                        child == IF f.search_full_window
                                 THEN Frame(f.fn, TRUE, f.depth - 1, -f.beta, -f.alpha)
                                 ELSE Frame(f.fn, TRUE, f.depth - 1, -f.alpha - 1, -f.alpha)
                    IN /\ SetPos(r.pos)
                       /\ srch' = Push(SetTop([srch EXCEPT
                                                  !.did = "do_move",
                                                  !.ply = IF f.fn = "search" THEN @ + 1 ELSE @],
                                              [f EXCEPT !.moves = Tail(@), !.move = move,
                                                        !.tried = @ + 1,
                                                        !.moveinfo = r.info,
                                                        !.stage = IF f.search_full_window
                                                                  THEN "full_window"
                                                                  ELSE "null_window"]),
                                       child)
    /\ UNCHANGED <<stack, last, mi, note, book, Uci>>

\* The caller after a call returned: the re-search, or the undo and the
\* tests on the result.
Resume ==
    /\ srch.pc = "search" /\ srch.ret.set
    /\ srch.frames # <<>>
    /\ Consistent(Pos)
    /\ LET f == Top
           result == -srch.ret.val
           temp_movelist == srch.ret.movelist
           s == [srch EXCEPT !.ret = NoRet]
       IN IF f.stage = "null_move"
          THEN /\ SetPos(undo_null_move(Pos, f.moveinfo))
               /\ srch' = IF result >= f.beta
                          THEN Return([s EXCEPT !.ply = @ - 1, !.did = "undo_null_move"],
                                      f.beta, <<>>)
                          ELSE SetTop([s EXCEPT !.ply = @ - 1, !.did = "undo_null_move"],
                                      [f EXCEPT !.stage = "loop",
                                                !.temp_movelist = temp_movelist])
          ELSE IF f.stage = "null_window" /\ f.alpha < result /\ result < f.beta
          THEN /\ srch' = Push(SetTop([s EXCEPT !.did = "research"],
                                      [f EXCEPT !.stage = "full_window"]),
                               Frame(f.fn, TRUE, f.depth - 1, -f.beta, -f.alpha))
               /\ PosUnchanged
          ELSE \E ub \in UBOf(UndoTouchesEmpty(Pos, f.move)) :
               LET s1 == [s EXCEPT !.did = "undo_move",
                                   !.ply = IF f.fn = "search" THEN @ - 1 ELSE @]
                   pv == push_back(temp_movelist, f.move)
                   undone == undo_move(Pos, f.move, f.moveinfo, ub)
                   s2 == IF f.fn = "search" /\ undone.board[to(f.move)] = NO_PIECE
                         THEN [s1 EXCEPT
                                 !.killers = update_killers(@, s1.ply, f.move),
                                 !.history = update_history(@, undone.current_side,
                                                            from(f.move), to(f.move), f.depth)]
                         ELSE s1
               IN /\ SetPos(undone)
                  /\ srch' =
                       IF result >= f.beta
                       THEN Return(s2, f.beta, IF f.fn = "search" THEN pv ELSE <<>>)
                       ELSE SetTop(s1,
                              [f EXCEPT
                                 !.stage = "loop",
                                 !.best = IF f.fn = "search" /\ result > @ THEN result ELSE @,
                                 !.movelist = IF f.fn = "search" /\ result > f.best
                                              THEN pv ELSE @,
                                 !.alpha = IF result > @ THEN result ELSE @,
                                 !.search_full_window = IF result > f.alpha THEN FALSE ELSE @])
    /\ UNCHANGED <<stack, last, mi, note, book, Uci>>

\* go after search<true> returned: the info line and the three breaks.
\* late says that elapsed >= _search_time / 2.
Iterate ==
    /\ srch.pc = "search" /\ srch.ret.set
    /\ srch.frames = <<>>
    /\ \E late \in (IF srch.search_time < INFINITE THEN BOOLEAN ELSE {FALSE}) :
       LET result == srch.ret.val
           pv_list == IF ~srch.stop_search THEN srch.ret.movelist ELSE srch.pv_list
           break == \/ result < lost_in(MAX_DEPTH) \/ result > win_in(MAX_DEPTH)
                    \/ srch.current_depth >= srch.search_depth
                    \/ late
       IN srch' = [srch EXCEPT
                     !.ret = NoRet,
                     !.did = "iterate",
                     !.pv_list = pv_list,
                     !.out = IF ~srch.stop_search
                             THEN Append(@, [line |-> "info", depth |-> srch.current_depth,
                                             nodes |-> srch.nodes_searched,
                                             pv |-> pv_list])
                             ELSE @,
                     !.iter = [depth |-> srch.current_depth, result |-> result,
                               late |-> late, stop_search |-> srch.stop_search],
                     !.pc = IF break THEN "bestmove" ELSE "while"]
    /\ PosUnchanged
    /\ UNCHANGED <<stack, last, mi, note, book, Uci>>

\* What pv_list.back() may yield when pv_list is empty.
GarbageMoves == {NO_MOVE, create_move(SQ_A1, SQ_A8)}

\* logger << "bestmove " << position.move_to_string(pv_list.back()).
\* back() of an empty list is undefined: the read may fault or yield any Move.
BestMove ==
    /\ srch.pc = "bestmove"
    /\ IF srch.pv_list # <<>>
       THEN srch' = [srch EXCEPT !.pc = "done", !.did = "bestmove",
                                 !.out = Append(@, [line |-> "bestmove", depth |-> 0, nodes |-> 0,
                                                    pv |-> <<srch.pv_list[Len(srch.pv_list)]>>])]
       ELSE \/ srch' = [srch EXCEPT !.pc = "fault", !.did = "bestmove"]
            \/ \E move \in GarbageMoves :
                  srch' = [srch EXCEPT !.pc = "done", !.did = "bestmove",
                                       !.out = Append(@, [line |-> "bestmove", depth |-> 0, nodes |-> 0,
                                                          pv |-> <<move>>])]
    /\ PosUnchanged
    /\ UNCHANGED <<stack, last, mi, note, book, Uci>>

NextSearch == Go \/ Stop \/ While \/ Enter \/ Loop \/ Resume \/ Iterate \/ BestMove

SpecSearch == InitSearch /\ [][NextSearch]_vars

(***************************************************************************)
(* The search on positions with little material, where the draw rules      *)
(* decide.                                                                  *)
(***************************************************************************)
DrawFens == {FenMinor, FenKnight, FenBishops, FenTwoKnights, FenPawn}

InitDraw ==
    /\ \E fenstr \in DrawFens : InitPos(PositionOfFen(fenstr))
    /\ stack = <<>>
    /\ last = NoOp
    /\ mi = NoInfo
    /\ note = NoNote
    /\ book = NoBook
    /\ Uci = NoUci
    /\ srch = NoSearch

SpecDraw == InitDraw /\ [][Next]_vars

(***************************************************************************)
(* The undo record on its own: every combination of fields is packed by    *)
(* create_moveinfo and read back by the accessors.                         *)
(***************************************************************************)
EnPassantSquares == {sq \in Squares : rank(sq) \in {RANK_3, RANK_6}}
HalfMoveSamples == {0, 1, 99, 100, 127, 128, 254, 255}

InitInfo ==
    /\ InitPos(EmptyPosition)
    /\ stack = <<>>
    /\ last = NoOp
    /\ note = NoNote
    /\ book = NoBook
    /\ Uci = NoUci
    /\ srch = NoSearch
    /\ mi \in [phase : {"args"}, captured : NO_PIECE_KIND..KING,
               castling : SUBSET ALL_CASTLING,
               ep : EnPassantSquares \cup {NO_SQUARE},
               enpassant : BOOLEAN, hm : HalfMoveSamples, info : {0}]

PackInfo ==
    /\ mi.phase = "args"
    /\ mi' = [mi EXCEPT !.phase = "packed",
                        !.info = create_moveinfo(mi.captured, mi.castling, mi.ep,
                                                 mi.enpassant, mi.hm)]
    /\ UNCHANGED <<board, by_color_bb, by_piece_kind_bb, piece_position,
                   current_side, castling_rights, enpassant_square,
                   half_move_counter, ply_counter, zobrist_hash, history,
                   stack, last, note, srch, book, Uci>>

SpecInfo == InitInfo /\ [][PackInfo]_vars

(***************************************************************************)
(*                              Properties                                 *)
(***************************************************************************)
ListSet(L) == {L[i] : i \in 1..Len(L)}

\* Positions P and Q are equal field by field, piece lists taken as sets.
SamePosition(P, Q) ==
    /\ P.board = Q.board
    /\ P.by_color_bb = Q.by_color_bb
    /\ P.by_piece_kind_bb = Q.by_piece_kind_bb
    /\ \A p \in Pieces : /\ Len(P.piece_position[p]) = Len(Q.piece_position[p])
                         /\ ListSet(P.piece_position[p]) = ListSet(Q.piece_position[p])
    /\ P.current_side = Q.current_side
    /\ P.castling_rights = Q.castling_rights
    /\ P.enpassant_square = Q.enpassant_square
    /\ P.half_move_counter = Q.half_move_counter
    /\ P.ply_counter = Q.ply_counter
    /\ Len(P.history) = Len(Q.history)
    /\ P.zobrist_hash = Q.zobrist_hash

\* C1: do_move(m) followed by undo_move(m, info) leaves the Position equal
\* to its state before do_move: board, bitboards, piece counts and lists (as
\* sets), side to move, castling rights, en-passant square (NO_SQUARE
\* included), both counters, the history count and the five subkeys.
C1_UndoRestoresPosition ==
    last.op = "undo_move" => SamePosition(Pos, last.before)

\* C2: the incrementally maintained key equals the from-scratch key
\* hash_position computes for the Polyglot book, after construction and
\* after every do/undo of a move or null move.
C2_KeyEqualsHashPosition ==
    get_key(zobrist_hash) = hash_position(Pos)

\* C3: board, bitboards and piece lists agree in every reachable state:
\* board[s] = (c,k) iff s is in by_color[c] and by_kind[k] iff s occurs
\* exactly once in the list of (c,k); an empty square is in none of them.
C3_BoardBitboardsListsAgree ==
    Consistent(Pos)

\* The rights do_move(move) has to remove in position P, read off the board.
RightsToRemove(P, move) ==
    LET side == P.current_side
        moved == P.board[from(move)]
        taken == P.board[to(move)]
    IN IF castling(move) # NO_CASTLING THEN CASTLING_RIGHTS(side)
       ELSE (IF moved = make_piece(side, KING) THEN CASTLING_RIGHTS(side) ELSE {})
            \cup (IF moved = make_piece(side, ROOK)
                  THEN {r \in CASTLING_RIGHTS(side) :
                           \/ r \in KING_CASTLING /\ from(move) = KING_SIDE_ROOK_SQUARE(side)
                           \/ r \in QUEEN_CASTLING /\ from(move) = QUEEN_SIDE_ROOK_SQUARE(side)}
                  ELSE {})
            \cup (IF taken = make_piece(Opp(side), ROOK)
                  THEN {r \in CASTLING_RIGHTS(Opp(side)) :
                           \/ r \in KING_CASTLING /\ to(move) = KING_SIDE_ROOK_SQUARE(Opp(side))
                           \/ r \in QUEEN_CASTLING /\ to(move) = QUEEN_SIDE_ROOK_SQUARE(Opp(side))}
                  ELSE {})

\* C4: do_move removes exactly the rights of a moving or castling king, of a
\* rook leaving its home square and of an opponent rook captured on its home
\* square, and retains every other right.
C4_CastlingRightsRemoved ==
    last.op = "do_move" =>
        castling_rights = last.before.castling_rights \ RightsToRemove(last.before, last.move)

\* The move is a pawn move or a capture (en-passant included) in position P.
PawnMoveOrCapture(P, move) ==
    /\ castling(move) = NO_CASTLING
    /\ \/ make_piece_kind(P.board[from(move)]) = PAWN
       \/ P.board[to(move)] # NO_PIECE

\* C5: after do_move(m) the half-move counter is 0 if m is a pawn move or a
\* capture, and otherwise (castling included) the previous value plus one.
C5_HalfMoveCounter ==
    last.op = "do_move" =>
        half_move_counter = IF PawnMoveOrCapture(last.before, last.move) THEN 0
                            ELSE last.before.half_move_counter + 1

\* The moves made so far, oldest first.
MovesPlayed == [i \in 1..Len(stack) |-> stack[i].move]

\* Ng1-f3, Ng8-f6, Nf3-g1, Nf6-g8
FourPlies == <<create_move(6, 21), create_move(62, 45), create_move(21, 6), create_move(45, 62)>>

\* How many history entries before the newest one hold the current key.
EarlierOccurrences ==
    Cardinality({i \in 1..(Len(history) - 1) : history[i] = get_key(zobrist_hash)})

\* C6: threefold_repetition() is true iff the current key equals at least
\* two of the history entries recorded before the current position; from the
\* start position it is false after Nf3 Nf6 Ng1 Ng8 and true after the same
\* four plies played a second time.
C6_ThreefoldRepetition ==
    /\ threefold_repetition(Pos) <=> EarlierOccurrences >= 2
    /\ MovesPlayed = FourPlies => ~threefold_repetition(Pos)
    /\ MovesPlayed = FourPlies \o FourPlies => threefold_repetition(Pos)

C6_Witness ==
    /\ MovesPlayed = FourPlies \o FourPlies
    /\ threefold_repetition(Pos)
    /\ EarlierOccurrences = 2

\* The number of pieces p standing on the board.
OnBoard(p) == Cardinality({sq \in Squares : board[sq] = p})

\* Bare kings, or one knight or one bishop against a bare king.
InsufficientMaterial ==
    LET minors == OnBoard(W_KNIGHT) + OnBoard(W_BISHOP) + OnBoard(B_KNIGHT) + OnBoard(B_BISHOP)
        others == OnBoard(W_PAWN) + OnBoard(W_ROOK) + OnBoard(W_QUEEN)
                  + OnBoard(B_PAWN) + OnBoard(B_ROOK) + OnBoard(B_QUEEN)
    IN others = 0 /\ minors <= 1

\* C7: is_draw() is true exactly when half_move_counter >= 100, or
\* threefold_repetition() holds, or the material on the board is K v K,
\* K+N v K or K+B v K (the minor piece on either side); for every other
\* material with counter < 100 and no repetition it is false.
C7_IsDraw ==
    is_draw(Pos) <=> \/ half_move_counter >= 100
                     \/ EarlierOccurrences >= 2
                     \/ InsufficientMaterial

C7_Witness ==
    /\ last.op = "do_move"
    /\ is_draw(Pos)
    /\ half_move_counter < 100
    /\ OnBoard(W_BISHOP) = 1
    /\ InsufficientMaterial

\* C8: after do_move, if the en-passant square is set then a pawn of the
\* side to move stands on an adjacent file on the rank from which it
\* captures onto that square; a double push no enemy pawn can capture en
\* passant leaves the square unset.
C8_EnPassantCapturable ==
    last.op = "do_move" /\ enpassant_square # NO_SQUARE =>
        \E sq \in Squares : /\ board[sq] = make_piece(current_side, PAWN)
                            /\ PawnAttacks(sq, current_side, enpassant_square)

\* C9: the accessors applied to create_moveinfo(...) return the packed
\* captured kind, prior castling set, prior en-passant square (NO_SQUARE
\* included), en-passant-capture flag and prior half-move counter.
C9_MoveInfoLossless ==
    mi.phase = "packed" =>
        /\ captured_piece(mi.info) = mi.captured
        /\ last_castling(mi.info) = mi.castling
        /\ last_enpassant_square(mi.info) = mi.ep
        /\ enpassant(mi.info) = mi.enpassant
        /\ half_move_counter_of(mi.info) = mi.hm

\* C10: do_null_move flips the side, clears the en-passant square and its
\* subkey and advances ply counter and half-move clock by one, the record
\* holding the prior clock; undo_null_move restores side, en-passant square
\* and subkey, ply counter and half-move clock; board, castling rights and
\* history are unchanged by the pair.
C10_NullMoveRoundTrip ==
    /\ last.op = "do_null_move" =>
          /\ current_side = Opp(last.before.current_side)
          /\ enpassant_square = NO_SQUARE
          /\ zobrist_hash.enpassant_key = {}
          /\ ply_counter = last.before.ply_counter + 1
          /\ half_move_counter = (last.before.half_move_counter + 1) % 256
          /\ half_move_counter_of(stack[Len(stack)].info) = last.before.half_move_counter
    /\ last.op = "undo_null_move" =>
          /\ current_side = last.before.current_side
          /\ enpassant_square = last.before.enpassant_square
          /\ zobrist_hash.enpassant_key = last.before.zobrist_hash.enpassant_key
          /\ ply_counter = last.before.ply_counter
          /\ half_move_counter = last.before.half_move_counter
          /\ board = last.before.board
          /\ castling_rights = last.before.castling_rights
          /\ history = last.before.history

\* The do_move calls not yet undone, and whether a null move is outstanding.
MovesOutstanding == Cardinality({i \in 1..Len(stack) : ~stack[i].null})
NullOutstanding == \E i \in 1..Len(stack) : stack[i].null

\* C11: under stack-disciplined use history_count is 1 plus the number of
\* do_move calls not yet undone and never below 1, the newest history entry
\* is the current key whenever no null move is outstanding, do_move adds
\* exactly one entry and undo_move removes exactly one.
C11_HistoryTracksMoves ==
    /\ Len(history) = 1 + MovesOutstanding
    /\ Len(history) >= 1
    /\ ~NullOutstanding => history[Len(history)] = get_key(zobrist_hash)
    /\ last.op = "do_move" => Len(history) = Len(last.before.history) + 1
    /\ last.op = "undo_move" => Len(history) = Len(last.before.history)

\* C12: for every position P reached by moves, Position(P.fen()) equals P:
\* same board, side to move, castling rights, en-passant square, half-move
\* counter, ply counter and Zobrist key.
C12_FenRoundTrip ==
    LET Q == PositionOfFen(fen(Pos))
    IN /\ Q.board = board
       /\ Q.current_side = current_side
       /\ Q.castling_rights = castling_rights
       /\ Q.enpassant_square = enpassant_square
       /\ Q.half_move_counter = half_move_counter
       /\ Q.ply_counter = ply_counter
       /\ get_key(Q.zobrist_hash) = get_key(zobrist_hash)

\* C13: for every move m produced by generate_moves, both castlings of
\* either colour and all four promotion kinds included,
\* parse_uci(uci(m)) = m, castling written as the king's two-square move.
C13_UciRoundTrip ==
    note.op = "uci" =>
        /\ ~note.thrown
        /\ note.result = note.move
        /\ castling(note.move) # NO_CASTLING =>
              note.text \in {<<"e", "1", "g", "1">>, <<"e", "1", "c", "1">>,
                             <<"e", "8", "g", "8">>, <<"e", "8", "c", "8">>}

C13_Witness ==
    /\ note.op = "uci"
    /\ current_side = BLACK
    /\ note.move = QUEEN_CASTLING_MOVE
    /\ note.text = <<"e", "8", "c", "8">>
    /\ note.result = note.move

\* C14: parse_san and parse_uci return NO_MOVE for every text that does not
\* denote a move legal in the current position, and never return a move
\* that generate_moves does not produce; the position is left unchanged.
C14_ParsersRefuseIllegal ==
    note.op \in {"parse_uci", "parse_san"} =>
        /\ ~note.thrown
        /\ note.result \in generate_moves(Pos) \cup {NO_MOVE}
        /\ note.op = "parse_uci" /\ (\A m \in generate_moves(Pos) : uci(Pos, m) # note.text)
              => note.result = NO_MOVE

\* C20: the constructor picks depth and time by precedence: infinite gives
\* (MAX_DEPTH, unbounded); else a non-zero depth gives (depth, unbounded);
\* else a non-zero movetime gives (MAX_DEPTH, movetime); else a non-zero
\* timeleft of the side to move gives (MAX_DEPTH, timeleft / (movestogo + 1))
\* with movestogo taken as 20 when it is 0; else (7, unbounded).
C20_LimitsPrecedence ==
    srch.pc = "constructed" =>
        LET l == srch.limits
            t == l.timeleft[current_side]
            got == <<srch.search_depth, srch.search_time>>
        IN /\ l.infinite => got = <<MAX_DEPTH, INFINITE>>
           /\ ~l.infinite /\ l.depth # 0 => got = <<l.depth, INFINITE>>
           /\ ~l.infinite /\ l.depth = 0 /\ l.movetime # 0 => got = <<MAX_DEPTH, l.movetime>>
           /\ ~l.infinite /\ l.depth = 0 /\ l.movetime = 0 /\ t # 0 /\ l.movestogo # 0
                 => got = <<MAX_DEPTH, t \div (l.movestogo + 1)>>
           /\ ~l.infinite /\ l.depth = 0 /\ l.movetime = 0 /\ t # 0 /\ l.movestogo = 0
                 => got = <<MAX_DEPTH, t \div 21>>
           /\ ~l.infinite /\ l.depth = 0 /\ l.movetime = 0 /\ t = 0 => got = <<7, INFINITE>>

C20_Witness ==
    /\ srch.pc = "constructed"
    /\ ~srch.limits.infinite /\ srch.limits.depth = 0 /\ srch.limits.movetime = 0
    /\ current_side = BLACK
    /\ srch.limits.timeleft[BLACK] = 30000 /\ srch.limits.timeleft[WHITE] = 0
    /\ srch.limits.movestogo = 0
    /\ srch.search_depth = MAX_DEPTH /\ srch.search_time = 1428

Searching == srch.pc \in {"while", "search", "bestmove", "done", "fault"}

InfoLines == SelectSeq(srch.out, LAMBDA l : l.line = "info")
BestMoveLines == SelectSeq(srch.out, LAMBDA l : l.line = "bestmove")

\* C15: in every execution of go, also when the stop or a limit comes
\* before the depth-1 iteration completes, when the root has no legal move
\* and when the root is drawn, the bestmove is the root move of the last
\* completed iteration's PV, and go never reads back() of an empty PV list.
C15_BestMoveFromCompletedIteration ==
    /\ srch.pc = "bestmove" => srch.pv_list # <<>>
    /\ srch.pc # "fault"
    /\ srch.pc = "done" =>
          /\ InfoLines # <<>>
          /\ LET pv == InfoLines[Len(InfoLines)].pv
             IN pv # <<>> /\ srch.out[Len(srch.out)].pv = <<pv[Len(pv)]>>

\* The moves of pv, from its back to index i, are legal one after another
\* from P.
RECURSIVE LegalLine(_, _, _)
LegalLine(P, pv, i) ==
    IF i = 0 THEN TRUE
    ELSE /\ pv[i] \in generate_moves(P)
         /\ LegalLine(do_move(P, pv[i], [c |-> WHITE, k |-> KING]).pos, pv, i - 1)

RootPlayable ==
    /\ generate_moves(srch.root) # {}
    /\ ~threefold_repetition(srch.root)
    /\ ~rule50(srch.root)

\* C16: when an iteration completes without stop on a root that has a legal
\* move and is not drawn, the published PV is non-empty, its moves are legal
\* in order from the root, and pv_list.back(), the bestmove, is a legal move
\* of the root.
C16_PublishedPvLegal ==
    /\ Searching /\ srch.did = "iterate" /\ ~srch.iter.stop_search /\ RootPlayable =>
          /\ srch.pv_list # <<>>
          /\ srch.out[Len(srch.out)].pv = srch.pv_list
          /\ LegalLine(srch.root, srch.pv_list, Len(srch.pv_list))
          /\ srch.pv_list[Len(srch.pv_list)] \in generate_moves(srch.root)
    /\ Searching /\ srch.pc = "done" /\ RootPlayable /\ InfoLines # <<>> =>
          srch.out[Len(srch.out)].pv[1] \in generate_moves(srch.root)

\* C17: once stop_search is true, every later entry to search or
\* quiescence_search returns 0 at once, no frame on the stack executes a
\* further do_move or do_null_move, and the flag stays true until the
\* bestmove is emitted.
C17_StopHaltsSearch ==
    /\ [](Searching /\ srch.did = "enter" /\ srch.entered.stop_search
            => srch.ret.set /\ srch.ret.val = 0)
    /\ [](Searching /\ srch.did \in {"do_move", "do_null_move"} => ~srch.stop_search)
    /\ [][Searching /\ srch.stop_search /\ srch.pc \in {"while", "search", "bestmove"}
            => srch'.stop_search]_vars

MovesInFlight ==
    Cardinality({i \in 1..Len(srch.frames) :
                    srch.frames[i].stage \in {"full_window", "null_window"}})
PliesInFlight ==
    Cardinality({i \in 1..Len(srch.frames) :
                    /\ srch.frames[i].fn = "search"
                    /\ srch.frames[i].stage \in {"full_window", "null_window", "null_move"}})

\* C18: every do_move and do_null_move inside search is followed by its undo
\* before the frame returns, on every path; so when the root search returns
\* the Position equals the root position and info.ply its value at entry.
C18_SearchRestoresPosition ==
    /\ srch.pc = "search" =>
          /\ Len(history) = Len(srch.entry.history) + MovesInFlight
          /\ srch.ply = PliesInFlight
    /\ srch.pc = "search" /\ srch.frames = <<>> /\ srch.ret.set =>
          /\ Pos = srch.entry
          /\ srch.ply = 0

IsMate(result) == result < lost_in(MAX_DEPTH) \/ result > win_in(MAX_DEPTH)

\* C19: go searches the depths 1, 2, 3, ... one more each time; it prints one
\* info line for each iteration that completes with stop clear, in
\* increasing depth; the next iteration starts only if the last score is not
\* a mate score, the depth is below the limit, the elapsed time is below
\* half the budget and stop is clear; at the end it prints exactly one
\* bestmove line, after all the info lines.
C19_IterativeDeepening ==
    /\ srch.pc # "fault"
    /\ Searching =>
          /\ srch.current_depth \in {srch.iter.depth, srch.iter.depth + 1}
          /\ \A i \in 1..Len(InfoLines) :
                /\ InfoLines[i].depth \in 1..srch.current_depth
                /\ i > 1 => InfoLines[i].depth > InfoLines[i - 1].depth
          /\ srch.did = "iterate" =>
                (~srch.iter.stop_search <=>
                    /\ srch.out # <<>>
                    /\ srch.out[Len(srch.out)] =
                          [line |-> "info", depth |-> srch.current_depth,
                           nodes |-> srch.nodes_searched, pv |-> srch.pv_list])
          /\ srch.pc = "search" /\ srch.iter.depth > 0 =>
                /\ srch.current_depth = srch.iter.depth + 1
                /\ ~IsMate(srch.iter.result)
                /\ srch.iter.depth < srch.search_depth
                /\ ~srch.iter.late
                /\ ~srch.iter.stop_search
          /\ srch.pc = "done" =>
                /\ Len(BestMoveLines) = 1
                /\ srch.out[Len(srch.out)].line = "bestmove"
          /\ srch.pc # "done" => BestMoveLines = <<>>

\* C21: when Limits.searchmoves is not empty the root considers only those
\* moves, so the move of the bestmove line is one of searchmoves.
C21_BestMoveAmongSearchMoves ==
    srch.pc = "done" /\ srch.limits.searchmoves # <<>> =>
        \A i \in 1..Len(BestMoveLines) :
            \E j \in 1..Len(srch.limits.searchmoves) :
                BestMoveLines[i].pv[1] = srch.limits.searchmoves[j]

(***************************************************************************)
(* polyglot.cpp: the opening book.  A file is a sequence of bytes; a key is *)
(* held as its eight bytes, most significant first; _hashmap maps a key to *)
(* its vector of (move, weight) pairs.  book.appended lists the push_back  *)
(* calls of the constructor in the order they were made.                   *)
(***************************************************************************)
MaxRecords == 3

\* The sixteen bytes of a record: key, move code, weight, learn.
BookRecord(key, move_code, weight) ==
    <<0, 0, 0, 0, 0, 0, 0, key, move_code \div 256, move_code % 256,
      weight \div 256, weight % 256, 0, 0, 0, 0>>

\* Records of two keys with the moves e2e4 and e1h1 and small weights.
BookRecords == {BookRecord(k, c, w) : k \in {1, 2}, c \in {796, 263}, w \in 0..2}

BookFiles ==
    {[exists |-> FALSE, records |-> <<>>]} \cup
    {[exists |-> TRUE, records |-> r] : r \in UNION {[1..n -> BookRecords] : n \in 0..MaxRecords}}

BytesOf(records) ==
    [i \in 1..(16 * Len(records)) |-> records[((i - 1) \div 16) + 1][((i - 1) % 16) + 1]]

\* What char entry[16] may hold before the first read.
UninitialisedEntries == {BookRecord(0, 0, 0), BookRecord(2, 796, 2)}

\* The (key, move, weight) the loop body computes from entry.
DecodeEntry(entry) ==
    LET move_code == entry[9] * 256 + entry[10]
        fromRank == (move_code \div 512) % 8
        fromFile == (move_code \div 64) % 8
        toRank == (move_code \div 8) % 8
        toFile == move_code % 8
        promotion_code == (move_code \div 4096) % 8
        promotion_ == IF promotion_code # 0 THEN PAWN + promotion_code ELSE NO_PIECE_KIND
    IN [key |-> SubSeq(entry, 1, 8),
        move |-> create_promotion(make_square(fromRank, fromFile),
                                  make_square(toRank, toFile), promotion_),
        weight |-> entry[11] * 256 + entry[12]]

decode_move(move, P) ==
    IF from(move) = 4 /\ to(move) \in {SQ_H1, 6} /\ P.board[from(move)] = W_KING
    THEN create_castling(KING_CASTLING)
    ELSE IF from(move) = 4 /\ to(move) \in {SQ_A1, 2} /\ P.board[from(move)] = W_KING
    THEN create_castling(QUEEN_CASTLING)
    ELSE IF from(move) = 60 /\ to(move) \in {SQ_H8, 62} /\ P.board[from(move)] = B_KING
    THEN create_castling(KING_CASTLING)
    ELSE IF from(move) = 60 /\ to(move) \in {SQ_A8, 58} /\ P.board[from(move)] = B_KING
    THEN create_castling(QUEEN_CASTLING)
    ELSE move

\* The index i at which the loop of get_random_move stops.
RECURSIVE RandomIndex(_, _, _, _)
RandomIndex(moves, sample, w, i) ==
    IF i < Len(moves) /\ w + moves[i + 1].weight < sample
    THEN RandomIndex(moves, sample, w + moves[i + 1].weight, i + 1)
    ELSE i

sum_of_weights(moves) ==
    LET RECURSIVE Sum(_)
        Sum(n) == IF n = 0 THEN 0 ELSE Sum(n - 1) + moves[n].weight
    IN Sum(Len(moves))

\* std::max_element with the comparator turned round: the first element
\* that none is below.
max_element_reversed(moves) ==
    CHOOSE i \in 1..Len(moves) :
        /\ \A j \in 1..Len(moves) : moves[j].weight >= moves[i].weight
        /\ \A j \in 1..(i - 1) : moves[j].weight > moves[i].weight

\* std::max_element with the comparator m1.second < m2.second: the index of
\* the first element that no other exceeds.
max_element(moves) ==
    CHOOSE i \in 1..Len(moves) :
        /\ \A j \in 1..Len(moves) : moves[j].weight <= moves[i].weight
        /\ \A j \in 1..(i - 1) : moves[j].weight < moves[i].weight

InitBook ==
    /\ InitPos(PositionOfFen(FenCastling))
    /\ stack = <<>>
    /\ last = NoOp
    /\ mi = NoInfo
    /\ note = NoNote
    /\ srch = NoSearch
    /\ Uci = NoUci
    /\ \E f \in BookFiles :
          book = [pc |-> "new", exists |-> f.exists, bytes |-> BytesOf(f.records)]

\* PolyglotBook::PolyglotBook up to the loop: the stream is good when the
\* file could be opened.
OpenBook ==
    /\ book.pc = "new"
    /\ book' = [pc |-> IF book.exists THEN "loop" ELSE "constructed",
                bytes |-> book.bytes, offset |-> 0, entry |-> <<>>,
                hashmap |-> <<>>, keys |-> <<>>, appended |-> <<>>,
                call |-> [fn |-> "none"]]
    /\ PosUnchanged
    /\ UNCHANGED <<stack, last, mi, note, srch, Uci>>

\* One turn of while (stream): read sixteen bytes, decode, push_back.  A read
\* that meets the end of the file stores the bytes it got, leaves the rest of
\* entry as it was and makes the stream bad.
ReadEntry ==
    /\ book.pc = "loop"
    /\ LET n == IF Len(book.bytes) - book.offset < 16
                THEN Len(book.bytes) - book.offset ELSE 16
       IN \E old \in (IF book.entry = <<>> THEN UninitialisedEntries ELSE {book.entry}) :
          LET entry == [i \in 1..16 |-> IF i <= n THEN book.bytes[book.offset + i] ELSE old[i]]
              e == DecodeEntry(entry)
              wm == [move |-> e.move, weight |-> e.weight]
              found == {x \in 1..Len(book.keys) : book.keys[x] = e.key}
              k == IF found = {} THEN Len(book.keys) + 1 ELSE CHOOSE x \in found : TRUE
          IN book' = [book EXCEPT
                        !.pc = IF n = 16 THEN "loop" ELSE "constructed",
                        !.offset = @ + n,
                        !.entry = entry,
                        !.keys = IF k > Len(@) THEN Append(@, e.key) ELSE @,
                        !.hashmap = IF k > Len(@) THEN Append(@, <<wm>>)
                                    ELSE [@ EXCEPT ![k] = Append(@, wm)],
                        !.appended = Append(@, e)]
    /\ PosUnchanged
    /\ UNCHANGED <<stack, last, mi, note, srch, Uci>>

\* PolyglotBook::get_random_move for a stored key whose weights sum to more
\* than zero (the two asserts); sample is _dist(_gen) % sum_of_weights.
GetRandomMove ==
    /\ book.pc = "constructed"
    /\ \E k \in 1..Len(book.keys) :
          LET moves == book.hashmap[k]
          IN /\ sum_of_weights(moves) > 0
             /\ \E sample \in 0..(sum_of_weights(moves) - 1) :
                   LET i == RandomIndex(moves, sample, 0, 0)
                   IN book' = [book EXCEPT !.call =
                                 [fn |-> "get_random_move", key |-> k, sample |-> sample,
                                  i |-> i,
                                  move |-> IF i < Len(moves)
                                           THEN decode_move(moves[i + 1].move, Pos)
                                           ELSE NO_MOVE]]
    /\ PosUnchanged
    /\ UNCHANGED <<stack, last, mi, note, srch, Uci>>

\* PolyglotBook::get_best_move for a stored key.
GetBestMove ==
    /\ book.pc = "constructed"
    /\ \E k \in 1..Len(book.keys) :
          LET moves == book.hashmap[k]
              best_move == moves[max_element(moves)]
          IN book' = [book EXCEPT !.call =
                        [fn |-> "get_best_move", key |-> k, sample |-> 0, i |-> 0,
                         move |-> decode_move(best_move.move, Pos)]]
    /\ PosUnchanged
    /\ UNCHANGED <<stack, last, mi, note, srch, Uci>>

NextBook == OpenBook \/ ReadEntry \/ GetRandomMove \/ GetBestMove

SpecBook == InitBook /\ [][NextBook]_vars

\* C22: get_random_move on a key with the weights w_1..w_n of sum S > 0
\* selects entry i for exactly w_i of the S sample values 0..S-1; an entry of
\* weight 0 is never selected, every entry of positive weight can be, and
\* the index used is below n.
C22_RandomMoveProportional ==
    book.pc = "constructed" /\ book.call.fn = "get_random_move" =>
        LET moves == book.hashmap[book.call.key]
            S == sum_of_weights(moves)
        IN /\ book.call.i < Len(moves)
           /\ moves[book.call.i + 1].weight > 0
           /\ \A j \in 1..Len(moves) :
                 Cardinality({sample \in 0..(S - 1) :
                                 RandomIndex(moves, sample, 0, 0) = j - 1}) = moves[j].weight

\* C23: get_best_move returns the decoded move of an entry whose weight is at
\* least the weight of every other entry stored for the key.
C23_BestMoveHasMaxWeight ==
    book.pc = "constructed" /\ book.call.fn = "get_best_move" =>
        LET moves == book.hashmap[book.call.key]
        IN \E j \in 1..Len(moves) :
              /\ book.call.move = decode_move(moves[j].move, Pos)
              /\ \A l \in 1..Len(moves) : moves[l].weight <= moves[j].weight

\* get_best_move answered for a key whose heaviest entry is not the first
\* one and is a castling move in book notation.
C23_Witness ==
    /\ book.pc = "constructed" /\ book.call.fn = "get_best_move"
    /\ LET moves == book.hashmap[book.call.key]
       IN /\ Len(moves) >= 2
          /\ moves[1].weight < moves[2].weight
          /\ moves[1].move # moves[2].move
          /\ book.call.move = KING_CASTLING_MOVE

\* C24: the constructor appends one (move, weight) entry for each complete
\* record of the file, in file order, N in all (none for an empty or a
\* missing file); no record, the last one in particular, is stored twice.
C24_OneEntryPerRecord ==
    book.pc = "constructed" =>
        /\ Len(book.appended) = Len(book.bytes) \div 16
        /\ \A i \in 1..Len(book.appended) :
              i <= Len(book.bytes) \div 16 =>
                 book.appended[i] = DecodeEntry(SubSeq(book.bytes, 16 * i - 15, 16 * i))

\* The move is a pawn capture onto an empty square of position P.
IsEnPassantCapture(P, move) ==
    /\ castling(move) = NO_CASTLING
    /\ make_piece_kind(P.board[from(move)]) = PAWN
    /\ file(from(move)) # file(to(move))
    /\ P.board[to(move)] = NO_PIECE

HistoryOf(s, side, f, t) ==
    IF <<side, f, t>> \in DOMAIN s.history THEN s.history[<<side, f, t>>] ELSE 0

\* C27: on a beta cutoff by move m at depth d the killer table at the current
\* ply and history[side][from(m)][to(m)] are updated iff m is quiet (its
\* destination is empty and it is no en-passant capture); the history entry
\* then grows by exactly d; a cutoff by a capture or an en-passant capture
\* leaves both tables as they were.
C27_CutoffUpdatesQuietOnly ==
    [][(/\ srch.pc = "search" /\ srch.ret.set /\ srch.frames # <<>>
        /\ Top.fn = "search" /\ Top.stage \in {"full_window", "null_window"}
        /\ -srch.ret.val >= Top.beta
        /\ srch'.did = "undo_move")
       => LET m == Top.move
              quiet == Pos'.board[to(m)] = NO_PIECE /\ ~IsEnPassantCapture(Pos', m)
          IN IF quiet
             THEN /\ srch'.killers[srch'.ply + 1][1] = m
                  /\ HistoryOf(srch', Pos'.current_side, from(m), to(m))
                        = HistoryOf(srch, Pos'.current_side, from(m), to(m)) + Top.depth
                  /\ \A k \in DOMAIN srch.history :
                        k # <<Pos'.current_side, from(m), to(m)>>
                           => srch'.history[k] = srch.history[k]
             ELSE /\ srch'.killers = srch.killers
                  /\ srch'.history = srch.history]_vars

(***************************************************************************)
(* The search to a depth at which null moves are tried, on roots where the *)
(* fifty-move rule ends every line three plies below the root, and with no *)
(* stop command.                                                           *)
(***************************************************************************)
\* 2N5/8/8/8/8/7k/r7/7K w - - 97 60: black threatens Ra1 mate.
FenThreat ==
    [board |-> <<"2", "N", "5", "/", "8", "/", "8", "/", "8", "/", "8", "/", "7", "k", "/", "r", "7", "/", "7", "K">>,
     side |-> "w", castling |-> <<"-">>, ep |-> <<"-">>, halfmove |-> <<"9", "7">>, fullmove |-> <<"6", "0">>]

\* 8/8/8/8/8/2k5/1n6/K1B5 w - - 100 60
FenMinorFifty ==
    [board |-> <<"8", "/", "8", "/", "8", "/", "8", "/", "8", "/", "2", "k", "5", "/", "1", "n", "6", "/", "K", "1", "B", "5">>,
     side |-> "w", castling |-> <<"-">>, ep |-> <<"-">>, halfmove |-> <<"1", "0", "0">>, fullmove |-> <<"6", "0">>]

DeepFens == {FenThreat, FenMinor, FenMinorFifty}

InitDeep ==
    /\ \E fenstr \in DeepFens : InitPos(PositionOfFen(fenstr))
    /\ stack = <<>>
    /\ last = NoOp
    /\ mi = NoInfo
    /\ note = NoNote
    /\ book = NoBook
    /\ Uci = NoUci
    /\ \E limits \in GoLimits(Pos), weights \in {0, 1} :
          /\ limits.movetime = 0 /\ limits.searchmoves = <<>>
          /\ limits.depth \in 1..MaxDeepDepth
          /\ srch = [pc |-> "constructed", limits |-> limits, weights |-> weights,
                     check_limits_counter |-> 4096,
                     search_depth |-> SearchLimits(Pos, limits).search_depth,
                     search_time |-> SearchLimits(Pos, limits).search_time]

NextDeep == Go \/ While \/ Enter \/ Loop \/ Resume \/ Iterate \/ BestMove

SpecDeep == InitDeep /\ [][NextDeep]_vars

\* C28: a search() node whose side to move has no legal move and is in check
\* returns lost_in(k), k being the number of plies (moves and null moves)
\* made from the root to the node; with no legal move and no check it
\* returns DRAW_SCORE.
C28_MateScoreCountsPlies ==
    (/\ srch.pc = "search" /\ srch.did = "enter" /\ srch.ret.set
     /\ srch.ret.frame.fn = "search"
     /\ ~srch.stop_search
     /\ ~threefold_repetition(Pos) /\ ~rule50(Pos)
     /\ generate_moves(Pos) = {})
    => srch.ret.val = IF is_in_check(Pos, current_side)
                      THEN lost_in(PliesInFlight) ELSE DRAW_SCORE

\* The frame that made the call the top frame is serving.
Caller == srch.frames[Len(srch.frames) - 1]

\* C26: at every search node only the first move tried is searched directly
\* with the full window [-beta, -alpha]; every later move is searched first
\* with the zero window [-alpha - 1, -alpha], and searched again with the
\* full window iff that result r satisfies alpha < r < beta.
C26_ZeroWindowAfterFirstMove ==
    /\ [](srch.pc = "search" /\ srch.did = "do_move" /\ Caller.fn = "search" =>
             IF Caller.tried = 1
             THEN Top.alpha = -Caller.beta /\ Top.beta = -Caller.alpha
             ELSE Top.alpha = -Caller.alpha - 1 /\ Top.beta = -Caller.alpha)
    /\ [](srch.pc = "search" /\ srch.did = "research" /\ Caller.fn = "search" =>
             Top.alpha = -Caller.beta /\ Top.beta = -Caller.alpha)
    /\ [][(/\ srch.pc = "search" /\ srch.ret.set /\ srch.frames # <<>>
           /\ Top.fn = "search" /\ Top.stage = "null_window"
           /\ srch'.did # "stop")
          => (srch'.did = "research"
                 <=> Top.alpha < -srch.ret.val /\ -srch.ret.val < Top.beta)]_vars

\* A search() call is about to run, and runs next.
AtSearchEntry ==
    /\ srch.pc = "search" /\ ~srch.ret.set /\ srch.frames # <<>>
    /\ Top.fn = "search" /\ Top.stage = "enter"
    /\ srch'.did \in {"enter", "do_null_move"}

NullMoveConditions ==
    /\ Top.allow_null_move
    /\ ~is_in_check(Pos, current_side)
    /\ HasNonPawnPiece(Pos)
    /\ Top.depth > 4

\* The null-move subtree is searched with depth - 4, the window
\* [-beta, -alpha] and no null move at its root; when it returns the null
\* move is undone first, and the node returns beta iff the negated result is
\* at least beta.
NullMoveSubtree ==
    /\ [](srch.pc = "search" /\ srch.did = "do_null_move" =>
             /\ Caller.stage = "null_move"
             /\ Top.fn = "search" /\ ~Top.allow_null_move
             /\ Top.depth = Caller.depth - 4
             /\ Top.alpha = -Caller.beta /\ Top.beta = -Caller.alpha)
    /\ [][(/\ srch.pc = "search" /\ srch.ret.set /\ srch.frames # <<>>
           /\ Top.stage = "null_move"
           /\ srch'.did # "stop")
          => /\ srch'.did = "undo_null_move"
             /\ Pos' = undo_null_move(Pos, Top.moveinfo)
             /\ srch'.ply = srch.ply - 1
             /\ IF -srch.ret.val >= Top.beta
                THEN /\ srch'.ret.set /\ srch'.ret.val = Top.beta
                     /\ Len(srch'.frames) = Len(srch.frames) - 1
                ELSE /\ ~srch'.ret.set
                     /\ Len(srch'.frames) = Len(srch.frames)
                     /\ srch'.frames[Len(srch.frames)].stage = "loop"]_vars

\* C25 as stated: search() makes a null move at a node iff null moves are
\* allowed there, the side to move is not in check, it has a knight, bishop,
\* rook or queen, and depth > 4; the subtree is searched with depth - 4, the
\* window [-beta, -alpha] and null moves disallowed at its root, the null
\* move is undone before anything else, and the node returns beta iff the
\* negated result is >= beta.
C25_NullMoveAtEveryNode ==
    /\ [][AtSearchEntry => (srch'.did = "do_null_move" <=> NullMoveConditions)]_vars
    /\ NullMoveSubtree

\* C25 amended: the same, at the nodes that search() does not leave before
\* the null-move test, that is, nodes that are not cancelled, not drawn by
\* repetition or by the fifty-move rule, and have a legal move.
C25_NullMoveAtSearchedNode ==
    /\ [][AtSearchEntry /\ ~srch'.stop_search
            /\ ~threefold_repetition(Pos) /\ ~rule50(Pos) /\ generate_moves(Pos) # {}
          => (srch'.did = "do_null_move" <=> NullMoveConditions)]_vars
    /\ [][AtSearchEntry /\ srch'.did = "do_null_move"
          => /\ ~srch'.stop_search
             /\ ~threefold_repetition(Pos) /\ ~rule50(Pos) /\ generate_moves(Pos) # {}]_vars
    /\ NullMoveSubtree

\* A null move made below the root was undone and cut the node off.
C25_Witness ==
    /\ srch.pc = "search" /\ srch.did = "undo_null_move"
    /\ srch.ret.set /\ srch.ret.val = srch.ret.frame.beta
    /\ srch.ret.frame.stage = "null_move"
    /\ srch.frames # <<>>

(***************************************************************************)
(* quiescence_search called on its own: every sampled depth and window on  *)
(* positions with and without captures, with a stop command at any time.   *)
(***************************************************************************)
\* R6k/8/6K1/8/8/8/8/8 b - - 0 1
FenMated ==
    [board |-> <<"R", "6", "k", "/", "8", "/", "6", "K", "1", "/", "8", "/", "8", "/", "8", "/", "8", "/", "8">>,
     side |-> "b", castling |-> <<"-">>, ep |-> <<"-">>, halfmove |-> <<"0">>, fullmove |-> <<"1">>]

QuiescenceFens ==
    {FenEnPassant, FenPromotion, FenMinor, FenBishops, FenStalemate, FenFifty, FenMated}

QuiescenceDepths == {0, 1, 2, MAX_DEPTH - 1}

QuiescenceWindows ==
    {<<-INFINITY_SCORE, INFINITY_SCORE>>, <<-1, 0>>, <<0, 1>>, <<-3, 3>>, <<2, 9>>, <<-9, -2>>}

InitQuiescence ==
    /\ \E fenstr \in QuiescenceFens : InitPos(PositionOfFen(fenstr))
    /\ stack = <<>>
    /\ last = NoOp
    /\ mi = NoInfo
    /\ note = NoNote
    /\ book = NoBook
    /\ Uci = NoUci
    /\ \E limits \in GoLimits(Pos), weights \in {0, 1},
          depth \in QuiescenceDepths, w \in QuiescenceWindows :
          /\ limits.depth = 1 /\ limits.movetime = 0 /\ limits.searchmoves = <<>>
          /\ srch = [Started([limits |-> limits, weights |-> weights,
                              check_limits_counter |-> 4096,
                              search_depth |-> SearchLimits(Pos, limits).search_depth,
                              search_time |-> SearchLimits(Pos, limits).search_time], Pos)
                       EXCEPT !.pc = "search",
                              !.frames = <<Frame("quiescence_search", FALSE, depth,
                                                 w[1], w[2])>>]

NextQuiescence == Stop \/ Enter \/ Loop \/ Resume

SpecQuiescence == InitQuiescence /\ [][NextQuiescence]_vars

Max(a, b) == IF a > b THEN a ELSE b

\* The move takes a piece, takes a pawn en passant or promotes.
TakesOrPromotes(P, move) ==
    /\ castling(move) = NO_CASTLING
    /\ \/ P.board[to(move)] # NO_PIECE
       \/ promotion(move) # NO_PIECE_KIND
       \/ IsEnPassantCapture(P, move)

\* C29: a quiescence_search call that is not cancelled, not drawn by
\* repetition or the fifty-move rule and has a legal move returns standpat
\* when depth <= 0, beta when depth > 0 and standpat >= beta, and otherwise a
\* value v with max(alpha, standpat) <= v <= beta found by searching only
\* the moves of generate_quiescence_moves; with no legal move it returns
\* lost_in(MAX_DEPTH) in check and DRAW_SCORE otherwise.
C29_QuiescenceValue ==
    /\ [](srch.pc = "search" /\ srch.did = "enter" /\ srch.ret.set
          /\ srch.ret.frame.fn = "quiescence_search" /\ ~srch.stop_search
          /\ ~threefold_repetition(Pos) /\ ~rule50(Pos)
          => LET f == srch.ret.frame
                 standpat == score(Pos, srch.weights)
             IN IF generate_moves(Pos) = {}
                THEN srch.ret.val = IF is_in_check(Pos, current_side)
                                    THEN -INFINITY_SCORE + MAX_DEPTH ELSE DRAW_SCORE
                ELSE IF f.depth <= 0 THEN srch.ret.val = standpat
                ELSE standpat >= f.beta /\ srch.ret.val = f.beta)
    /\ [](srch.pc = "search" /\ srch.did = "enter" /\ ~srch.ret.set
          /\ Top.fn = "quiescence_search" /\ Top.stage = "loop"
          => /\ ~threefold_repetition(Pos) /\ ~rule50(Pos)
             /\ generate_moves(Pos) # {}
             /\ Top.depth > 0
             /\ Top.standpat = score(Pos, srch.weights)
             /\ Top.standpat < Top.beta
             /\ Top.alpha = Max(Top.alpha0, Top.standpat)
             /\ \A i \in 1..Len(Top.moves) :
                   Top.moves[i] \in generate_moves(Pos) /\ TakesOrPromotes(Pos, Top.moves[i]))
    /\ [](srch.pc = "search" /\ srch.did \in {"return", "undo_move"} /\ srch.ret.set
          /\ srch.ret.frame.fn = "quiescence_search" /\ ~srch.stop_search
          => LET f == srch.ret.frame
             IN /\ f.depth > 0
                /\ f.standpat < f.beta
                /\ Max(f.alpha0, f.standpat) <= srch.ret.val
                /\ srch.ret.val <= f.beta)
    /\ [][srch.pc = "search" /\ srch.frames # <<>> /\ Top.fn = "quiescence_search"
          /\ srch'.did = "do_move"
          => /\ Top.stage = "loop" /\ Top.moves # <<>>
             /\ srch'.frames[Len(srch.frames)].move = Head(Top.moves)
             /\ srch'.frames[Len(srch.frames) + 1].fn = "quiescence_search"
             /\ srch'.frames[Len(srch.frames) + 1].depth = Top.depth - 1]_vars

\* A call finished whose value, found by a capture, lies strictly between
\* the stand-pat score and beta.
C29_Witness ==
    /\ srch.pc = "search" /\ srch.ret.set /\ ~srch.stop_search
    /\ srch.did = "return"
    /\ srch.ret.frame.fn = "quiescence_search"
    /\ srch.ret.frame.tried >= 1
    /\ srch.ret.val > Max(srch.ret.frame.alpha0, srch.ret.frame.standpat)
    /\ srch.ret.val < srch.ret.frame.beta

\* 8/8/8/8/8/2k5/1n6/K1B5 w - - 0 1
FenMinorFresh ==
    [board |-> <<"8", "/", "8", "/", "8", "/", "8", "/", "8", "/", "2", "k", "5", "/", "1", "n", "6", "/", "K", "1", "B", "5">>,
     side |-> "w", castling |-> <<"-">>, ep |-> <<"-">>, halfmove |-> <<"0">>, fullmove |-> <<"1">>]

(***************************************************************************)
(* go under a node limit: check_limits counts its calls down and looks at  *)
(* nodes_searched once the counter is used up.                             *)
(***************************************************************************)
NodesFens == {FenMinorFresh, FenMinorFifty}

NodeLimits == {100, 1000}

InitNodes ==
    /\ \E fenstr \in NodesFens : InitPos(PositionOfFen(fenstr))
    /\ stack = <<>>
    /\ last = NoOp
    /\ mi = NoInfo
    /\ note = NoNote
    /\ book = NoBook
    /\ Uci = NoUci
    /\ \E limits \in GoLimits(Pos), nodes \in NodeLimits, c \in CounterSamples :
          /\ limits.movetime = 0 /\ limits.searchmoves = <<>>
          /\ limits.depth = MaxDeepDepth
          /\ srch = [pc |-> "constructed", limits |-> [limits EXCEPT !.nodes = nodes],
                     weights |-> 0, check_limits_counter |-> c,
                     search_depth |-> SearchLimits(Pos, limits).search_depth,
                     search_time |-> SearchLimits(Pos, limits).search_time]

NextNodes == Go \/ While \/ Enter \/ Loop \/ Resume \/ Iterate \/ BestMove

SpecNodes == InitNodes /\ [][NextNodes]_vars

\* go has passed the constructor and runs under a node limit.
UnderNodeLimit == srch.pc \notin {"idle", "constructed"} /\ srch.limits.nodes > 0

\* C30: under a node limit the stop flag is set no later than the 4096th
\* call of check_limits made after nodes_searched first reached limits.nodes,
\* nodes_searched never passes limits.nodes by more than 4096, go then ends
\* with a bestmove, and between two evaluations of the limits the counter
\* runs through 4095 calls that answer false.
C30_NodeLimitStops ==
    UnderNodeLimit =>
       /\ srch.reached > 0 /\ srch.calls - srch.reached >= 4096 => srch.stop_search
       /\ srch.nodes_searched <= srch.limits.nodes + 4096
       /\ srch.stop_search => srch.pc # "fault"
       /\ srch.calls > 0 => srch.check_limits_counter \in 1..4096

(***************************************************************************)
(* uci.cpp: the command loop and the search threads it starts.  The loop   *)
(* runs in the main thread; go_command makes a Search, keeps it in the     *)
(* shared_ptr search and detaches a thread whose lambda captures this.     *)
(* Uci.objects are the Search objects made so far, Uci.threads the threads *)
(* started so far.  A Position value is known by the command that made it. *)
(***************************************************************************)
MaxGo == 2
MaxCommands == 4

PositionTexts == {"startpos", "fen"}

\* The Uci after loop() has set position = Position() and before any command.
InitUci ==
    /\ InitPos(PositionOfFen(STARTPOS_FEN))
    /\ stack = <<>>
    /\ last = NoOp
    /\ mi = NoInfo
    /\ note = NoNote
    /\ srch = NoSearch
    /\ book = NoBook
    /\ \E contains \in BOOLEAN :
          Uci = [pc |-> "loop", search |-> 0,
                 position |-> [text |-> "startpos", made |-> 0],
                 polyglot |-> contains, commands |-> 0, did |-> "loop",
                 objects |-> <<>>, threads |-> <<>>, out |-> <<>>]

UciRest ==
    /\ PosUnchanged
    /\ UNCHANGED <<stack, last, mi, note, srch, book>>

\* Uci::position_command: position = Position() or position = Position(fen).
position_command ==
    /\ Uci.pc = "loop" /\ Uci.commands < MaxCommands
    /\ \E token \in PositionTexts :
          Uci' = [Uci EXCEPT !.did = "position_command", !.commands = @ + 1,
                             !.position = [text |-> token, made |-> Uci.commands + 1]]
    /\ UciRest

\* Uci::ucinewgame_command: position = Position().
ucinewgame_command ==
    /\ Uci.pc = "loop" /\ Uci.commands < MaxCommands
    /\ Uci' = [Uci EXCEPT !.did = "ucinewgame_command", !.commands = @ + 1,
                          !.position = [text |-> "startpos", made |-> Uci.commands + 1]]
    /\ UciRest

\* The objects after the shared_ptr search lets go of the Search it held:
\* it was the only owner, so the Search is destroyed.
Released(objects, search) ==
    IF search = 0 THEN objects
    ELSE [objects EXCEPT ![search].alive = FALSE]

\* Uci::go_command: search = std::make_shared<Search>(position, ...), then
\* the thread is started and detached.  stop_search is not set by the
\* constructor.
go_command ==
    /\ Uci.pc = "loop" /\ Uci.commands < MaxCommands
    /\ Len(Uci.threads) < MaxGo
    /\ \E garbage \in BOOLEAN :
       LET o == Len(Uci.objects) + 1
       IN Uci' = [Uci EXCEPT
                    !.did = "go_command",
                    !.commands = @ + 1,
                    !.objects = Append(Released(@, Uci.search),
                                       [alive |-> TRUE, stop_search |-> garbage,
                                        position |-> Uci.position, stopped |-> FALSE]),
                    !.search = o,
                    !.threads = Append(@, [pc |-> "spawned", obj |-> 0, made |-> o,
                                           position |-> Uci.position])]
    /\ UciRest

\* Uci::stop_command: if (search) search->stop().  stopped remembers that
\* stop() was called on the object.
stop_command ==
    /\ Uci.pc = "loop" /\ Uci.commands < MaxCommands
    /\ Uci' = IF Uci.search = 0 THEN [Uci EXCEPT !.did = "stop_command", !.commands = @ + 1]
              ELSE [Uci EXCEPT !.did = "stop_command", !.commands = @ + 1,
                               !.objects[Uci.search].stop_search = TRUE,
                               !.objects[Uci.search].stopped = TRUE]
    /\ UciRest

\* The lambda of the search thread up to the choice between book and search:
\* it reads this->position and asks the book.
ThreadHash ==
    \E t \in 1..Len(Uci.threads) :
    /\ Uci.threads[t].pc = "spawned"
    /\ Uci' = IF Uci.polyglot
              THEN [Uci EXCEPT !.did = "ThreadHash", !.threads[t].pc = "done",
                               !.out = Append(@, [line |-> "bestmove", thread |-> t,
                                                  position |-> Uci.position])]
              ELSE [Uci EXCEPT !.did = "ThreadHash", !.threads[t].pc = "call"]
    /\ UciRest

\* this->search->go(): the pointer is read when the thread gets here.
ThreadCall ==
    \E t \in 1..Len(Uci.threads) :
    /\ Uci.threads[t].pc = "call"
    /\ Uci' = [Uci EXCEPT !.did = "ThreadCall", !.threads[t].pc = "go", !.threads[t].obj = Uci.search]
    /\ UciRest

\* Search::go up to the loop: stop_search = false.  On a destroyed Search
\* the write is undefined: the thread faults or goes on.
ThreadGo ==
    \E t \in 1..Len(Uci.threads) :
    /\ Uci.threads[t].pc = "go"
    /\ LET o == Uci.threads[t].obj
       IN \/ /\ ~Uci.objects[o].alive
             /\ Uci' = [Uci EXCEPT !.did = "ThreadGo", !.threads[t].pc = "fault"]
          \/ Uci' = [Uci EXCEPT !.did = "ThreadGo", !.threads[t].pc = "while",
                                !.objects[o].stop_search = FALSE]
    /\ UciRest

\* The loop of go and the entries of search and quiescence_search with the
\* flag set: the search unwinds and go leaves its loop.
ThreadStopped ==
    \E t \in 1..Len(Uci.threads) :
    /\ Uci.threads[t].pc = "while"
    /\ LET o == Uci.threads[t].obj
       IN \/ /\ ~Uci.objects[o].alive
             /\ Uci' = [Uci EXCEPT !.did = "ThreadStopped", !.threads[t].pc = "fault"]
          \/ /\ Uci.objects[o].stop_search \/ ~Uci.objects[o].alive
             /\ Uci' = [Uci EXCEPT !.did = "ThreadStopped", !.threads[t].pc = "bestmove"]
    /\ UciRest

\* go leaves its loop with the flag clear: a mate score, the depth limit or
\* the time limit.
ThreadFinished ==
    \E t \in 1..Len(Uci.threads) :
    /\ Uci.threads[t].pc = "while"
    /\ LET o == Uci.threads[t].obj
       IN /\ ~Uci.objects[o].stop_search \/ ~Uci.objects[o].alive
          /\ Uci' = [Uci EXCEPT !.did = "ThreadFinished", !.threads[t].pc = "bestmove"]
    /\ UciRest

\* logger << "bestmove " << ..., the end of go and of the thread.
ThreadBestMove ==
    \E t \in 1..Len(Uci.threads) :
    /\ Uci.threads[t].pc = "bestmove"
    /\ Uci' = [Uci EXCEPT !.did = "ThreadBestMove", !.threads[t].pc = "done",
                          !.out = Append(@, [line |-> "bestmove", thread |-> t,
                                             position |-> Uci.objects[Uci.threads[t].obj].position])]
    /\ UciRest

NextUci ==
    \/ position_command \/ ucinewgame_command \/ go_command \/ stop_command
    \/ ThreadHash \/ ThreadCall \/ ThreadGo
    \/ ThreadStopped \/ ThreadFinished \/ ThreadBestMove

SpecUci == InitUci /\ [][NextUci]_vars

\* Thread t is inside Search::go.
InGo(t) == Uci.threads[t].pc \in {"go", "while", "bestmove"}

\* Thread t has not ended.
Running(t) == Uci.threads[t].pc \notin {"done", "fault"}

\* C31: a stop command processed after go_command has returned is not lost:
\* once the thread of that go is in the loop of Search::go, the flag of its
\* Search is set, so the search unwinds and prints bestmove.
C31_StopNotLost ==
    Uci.pc = "loop" =>
       \A t \in 1..Len(Uci.threads) :
          /\ Uci.threads[t].pc = "while"
          /\ Uci.threads[t].obj = Uci.threads[t].made
          /\ Uci.objects[Uci.threads[t].made].alive
          /\ Uci.objects[Uci.threads[t].made].stopped
          => Uci.objects[Uci.threads[t].made].stop_search

\* C32: at most one thread is inside Search::go, and while a search thread
\* runs the Search made for it is alive and still the one Uci holds, and the
\* Position its lambda reads is the one its go command saw.
C32_OneSearchAtATime ==
    Uci.pc = "loop" =>
       /\ Cardinality({t \in 1..Len(Uci.threads) : InGo(t)}) <= 1
       /\ \A t \in 1..Len(Uci.threads) :
             Running(t) =>
                /\ Uci.objects[Uci.threads[t].made].alive
                /\ Uci.search = Uci.threads[t].made
                /\ Uci.threads[t].pc = "spawned" => Uci.position = Uci.threads[t].position

\* The search has call frames.
HasFrames == srch.pc \notin {"idle", "constructed"}

\* C33: along the active frames of search the depth argument decreases
\* strictly and is never negative, the null-move call included, and the same
\* holds for the depth index of the active frames of quiescence_search: no
\* two active frames use the same row of MOVE_LIST or of
\* QUIESCENCE_MOVE_LIST.
C33_DistinctBufferRows ==
    HasFrames =>
       /\ \A i \in 1..Len(srch.frames) : srch.frames[i].depth >= 0
       /\ \A i, j \in 1..Len(srch.frames) :
             i < j /\ srch.frames[i].fn = srch.frames[j].fn
             => srch.frames[j].depth < srch.frames[i].depth

\* The search called for a null move has called search for one of its moves:
\* three active frames of search, the null-move call between them.
C33_Witness ==
    /\ HasFrames
    /\ \E i \in 1..Len(srch.frames) :
          /\ srch.frames[i].stage = "null_move"
          /\ Len(srch.frames) >= i + 2
          /\ srch.frames[i + 1].fn = "search" /\ srch.frames[i + 2].fn = "search"

\* move takes a pawn of the side to move in P from its second rank to its
\* fourth rank.
IsDoublePush(P, move) ==
    /\ castling(move) = NO_CASTLING
    /\ P.board[from(move)] = make_piece(P.current_side, PAWN)
    /\ rank(from(move)) = (IF P.current_side = WHITE THEN RANK_2 ELSE RANK_7)
    /\ rank(to(move)) = (IF P.current_side = WHITE THEN RANK_4 ELSE RANK_5)

\* The square between the two squares of a move along a file.
PassedOver(move) == (from(move) + to(move)) \div 2

\* The en-passant square is the one do_move and do_null_move leave.
EnPassantAfterMove ==
    /\ last.op = "do_move" =>
          enpassant_square = (IF IsDoublePush(last.before, last.move)
                              THEN PassedOver(last.move) ELSE NO_SQUARE)
    /\ last.op = "do_null_move" => enpassant_square = NO_SQUARE

\* C34: after do_move(m) the en-passant square is the square passed over when
\* m took a pawn from its second to its fourth rank and NO_SQUARE after every
\* other move and after do_null_move; whenever it is set it lies on rank 3
\* or rank 6.
C34_EnPassantSquare ==
    /\ EnPassantAfterMove
    /\ enpassant_square # NO_SQUARE => rank(enpassant_square) \in {RANK_3, RANK_6}

(***************************************************************************)
(* SAN writing: san_without_check.                                         *)
(***************************************************************************)
\* 6k1/8/8/Q3Q3/8/8/8/Q6K w - - 0 1
FenThreeQueens ==
    [board |-> <<"6", "k", "1", "/", "8", "/", "8", "/", "Q", "3", "Q", "3", "/", "8", "/", "8", "/", "8", "/", "Q", "6", "K">>,
     side |-> "w", castling |-> <<"-">>, ep |-> <<"-">>, halfmove |-> <<"0">>, fullmove |-> <<"1">>]

\* 4k3/8/8/R7/8/8/8/R3K3 w - - 0 1
FenRooksOnFile ==
    [board |-> <<"4", "k", "3", "/", "8", "/", "8", "/", "R", "7", "/", "8", "/", "8", "/", "8", "/", "R", "3", "K", "3">>,
     side |-> "w", castling |-> <<"-">>, ep |-> <<"-">>, halfmove |-> <<"0">>, fullmove |-> <<"1">>]

\* 4k3/8/8/8/8/8/8/1N2KN2 w - - 0 1
FenTwoKnightsHome ==
    [board |-> <<"4", "k", "3", "/", "8", "/", "8", "/", "8", "/", "8", "/", "8", "/", "8", "/", "1", "N", "2", "K", "N", "2">>,
     side |-> "w", castling |-> <<"-">>, ep |-> <<"-">>, halfmove |-> <<"0">>, fullmove |-> <<"1">>]

SanFens == {FenThreeQueens, FenRooksOnFile, FenTwoKnightsHome, FenEnPassant, FenPromotion}

\* The generated moves that san_without_check keeps: no castling, the same
\* kind of piece, the same destination and the same promotion as move.
matching_moves(P, move) ==
    {m \in generate_moves(P) :
        /\ castling(m) = NO_CASTLING
        /\ make_piece_kind(P.board[from(m)]) = make_piece_kind(P.board[from(move)])
        /\ to(m) = to(move)
        /\ promotion(m) = promotion(move)}

\* What san_without_check writes between the piece letter and the rest when
\* more than one move matches: the file of the origin, and the rank too when
\* another matching move starts on that file.
origin_text(P, move) ==
    IF Cardinality(matching_moves(P, move)) > 1
    THEN <<FileChars[file(from(move)) + 1]>>
         \o (IF Cardinality({m \in matching_moves(P, move) :
                                file(from(m)) = file(from(move))}) > 1
             THEN <<DigitChars[rank(from(move)) + 2]>> ELSE <<>>)
    ELSE <<>>

\* Position::san_without_check.
san_without_check(P, move) ==
    LET piece_str == <<" ", " ", "N", "B", "R", "Q", "K">>
        promotion_str == <<" ", " ", "N", "B", "R", "Q", " ">>
        moved_piece == make_piece_kind(P.board[from(move)])
        s == (IF moved_piece # PAWN THEN <<piece_str[moved_piece + 1]>> ELSE <<>>)
             \o origin_text(P, move)
        capturing_bb == P.by_color_bb[Opp(P.current_side)]
                        \cup (IF moved_piece = PAWN THEN {P.enpassant_square} ELSE {})
    IN IF castling(move) = KING_CASTLING THEN <<"O", "-", "O">>
       ELSE IF castling(move) = QUEEN_CASTLING THEN <<"O", "-", "O", "-", "O">>
       ELSE s \o (IF to(move) \in capturing_bb
                  THEN (IF moved_piece = PAWN /\ s = <<>>
                        THEN <<FileChars[file(from(move)) + 1]>> ELSE <<>>) \o <<"x">>
                  ELSE <<>>)
              \o squareToNotation(to(move))
              \o (IF promotion(move) # NO_PIECE_KIND
                  THEN <<"=", promotion_str[promotion(move) + 1]>> ELSE <<>>)

InitSan ==
    /\ \E fenstr \in SanFens : InitPos(PositionOfFen(fenstr))
    /\ stack = <<>>
    /\ last = NoOp
    /\ mi = NoInfo
    /\ note = NoNote
    /\ srch = NoSearch
    /\ book = NoBook
    /\ Uci = NoUci

\* A generated move is written with san_without_check.  note.origin is the
\* part of the text that names the origin.
WriteSan ==
    /\ note = NoNote
    /\ \E move \in generate_moves(Pos) :
          note' = [op |-> "san", move |-> move, text |-> san_without_check(Pos, move),
                   origin |-> IF castling(move) = NO_CASTLING
                              THEN origin_text(Pos, move) ELSE <<>>]
    /\ PosUnchanged
    /\ UNCHANGED <<stack, last, mi, srch, book, Uci>>

NextSan == Play \/ WriteSan

SpecSan == InitSan /\ [][NextSan]_vars

\* The other legal moves of the same kind of piece to the same destination
\* with the same promotion.
Rivals(P, move) ==
    {m \in generate_moves(P) \ {move} :
        /\ castling(m) = NO_CASTLING
        /\ make_piece_kind(P.board[from(m)]) = make_piece_kind(P.board[from(move)])
        /\ to(m) = to(move)
        /\ promotion(m) = promotion(move)}

\* The origin a SAN text needs: nothing without a rival, the file when no
\* rival starts on it, else the rank when no rival starts on it, else both.
NeededOrigin(P, move) ==
    LET f == <<FileChars[file(from(move)) + 1]>>
        r == <<DigitChars[rank(from(move)) + 2]>>
    IN IF Rivals(P, move) = {} THEN <<>>
       ELSE IF \A m \in Rivals(P, move) : file(from(m)) # file(from(move)) THEN f
       ELSE IF \A m \in Rivals(P, move) : rank(from(m)) # rank(from(move)) THEN r
       ELSE f \o r

\* C35: san writes the origin of a move only as needed among the legal moves
\* of the same kind of piece to the same destination with the same
\* promotion: nothing, the file, the rank, or file and rank.
C35_SanDisambiguation ==
    note.op = "san" /\ castling(note.move) = NO_CASTLING =>
       note.origin = NeededOrigin(Pos, note.move)

(***************************************************************************)
(* Position::see, the static exchange evaluation of a capture.             *)
(***************************************************************************)
\* PIECE_VALUE[kind].eg, by kind from NO_PIECE_KIND to KING.
PIECE_VALUE == <<0, 1, 3, 3, 5, 9, 100>>

\* The piece standing on p attacks sq under occupancy occ.
Attacks(P, p, sq, occ) ==
    LET k == get_piece_kind(P.board[p])
    IN IF k = PAWN THEN PawnAttacks(p, get_color(P.board[p]), sq)
       ELSE IF k = KNIGHT THEN KnightStep(p, sq)
       ELSE IF k = KING THEN KingStep(p, sq)
       ELSE SliderAttack(k, p, sq, occ)

\* Position::square_attackers: the pieces of color that attack sq, the
\* sliders with all the pieces of the board in their way.
square_attackers(P, sq, color) ==
    {p \in P.by_color_bb[color] : Attacks(P, p, sq, pieces(P))}

SeeKinds == <<PAWN, KNIGHT, BISHOP, ROOK, QUEEN, KING>>

Min(S) == CHOOSE x \in S : \A y \in S : x <= y

\* The loop of see: side is the side that captured last, att the attackers
\* left to each colour, pks the kinds taken so far, current the kind standing
\* on the target.  The result is pks when a side has no attacker left.
RECURSIVE SeeLoop(_, _, _, _, _, _)
SeeLoop(P, side, att, occupied, pks, current) ==
    LET s == Opp(side)
        found == {i \in 1..6 : att[s] \cap pieces_ck(P, s, SeeKinds[i]) \cap occupied # {}}
    IN IF att[s] = {} THEN pks
       ELSE LET pk == SeeKinds[Min(found)]
                sq == Min(att[s] \cap pieces_ck(P, s, pk) \cap occupied)
            IN SeeLoop(P, s, [att EXCEPT ![s] = @ \ {sq}], occupied \ {sq},
                       Append(pks, current), pk)

\* value = max(0, PIECE_VALUE[pks[counter]] - value) from the last capture
\* down to the second; the first capture is forced.
RECURSIVE SeeValue(_, _)
SeeValue(pks, counter) ==
    IF counter > Len(pks) THEN 0
    ELSE LET value == SeeValue(pks, counter + 1)
         IN IF counter = 1 THEN PIECE_VALUE[pks[1] + 1] - value
            ELSE Max(0, PIECE_VALUE[pks[counter] + 1] - value)

\* Position::see.
see(P, move) ==
    LET side == P.current_side
        attackers == [c \in Colors |->
                        IF c = side THEN square_attackers(P, to(move), c) \ {from(move)}
                        ELSE square_attackers(P, to(move), c)]
    IN SeeValue(SeeLoop(P, side, attackers, pieces(P) \ {from(move), to(move)},
                        <<get_piece_kind(P.board[to(move)])>>,
                        get_piece_kind(P.board[from(move)])), 1)
\* r3k3/p7/8/8/8/8/R7/R3K3 w - - 0 1
FenRookBattery ==
    [board |-> <<"r", "3", "k", "3", "/", "p", "7", "/", "8", "/", "8", "/", "8", "/", "8", "/", "R", "7", "/", "R", "3", "K", "3">>,
     side |-> "w", castling |-> <<"-">>, ep |-> <<"-">>, halfmove |-> <<"0">>, fullmove |-> <<"1">>]

\* 4k3/8/3p4/4p3/3P4/2B5/8/4K3 w - - 0 1
FenBishopBehindPawn ==
    [board |-> <<"4", "k", "3", "/", "8", "/", "3", "p", "4", "/", "4", "p", "3", "/", "3", "P", "4", "/", "2", "B", "5", "/", "8", "/", "4", "K", "3">>,
     side |-> "w", castling |-> <<"-">>, ep |-> <<"-">>, halfmove |-> <<"0">>, fullmove |-> <<"1">>]

\* 4k3/8/2n5/4p3/3P4/5N2/8/4K2R b - - 0 1
FenExchange ==
    [board |-> <<"4", "k", "3", "/", "8", "/", "2", "n", "5", "/", "4", "p", "3", "/", "3", "P", "4", "/", "5", "N", "2", "/", "8", "/", "4", "K", "2", "R">>,
     side |-> "b", castling |-> <<"-">>, ep |-> <<"-">>, halfmove |-> <<"0">>, fullmove |-> <<"1">>]

SeeFens == {FenRookBattery, FenBishopBehindPawn, FenExchange, FenPromotion, FenThreeQueens}

InitSee ==
    /\ \E fenstr \in SeeFens : InitPos(PositionOfFen(fenstr))
    /\ stack = <<>>
    /\ last = NoOp
    /\ mi = NoInfo
    /\ note = NoNote
    /\ srch = NoSearch
    /\ book = NoBook
    /\ Uci = NoUci

\* see is asked for a generated move that takes the piece on its target.
See ==
    /\ note = NoNote
    /\ \E move \in generate_moves(Pos) :
          /\ castling(move) = NO_CASTLING
          /\ board[to(move)] # NO_PIECE
          /\ note' = [op |-> "see", move |-> move, value |-> see(Pos, move)]
    /\ PosUnchanged
    /\ UNCHANGED <<stack, last, mi, srch, book, Uci>>

NextSee == Play \/ See

SpecSee == InitSee /\ [][NextSee]_vars

\* The swap-off on sq with the attackers looked up again after every
\* capture: the kinds taken, when side has captured last, occupied are the
\* pieces still standing and current stands on sq.
RECURSIVE SwapOff(_, _, _, _, _, _)
SwapOff(P, sq, side, occupied, pks, current) ==
    LET s == Opp(side)
        att == {p \in occupied \cap P.by_color_bb[s] : Attacks(P, p, sq, occupied)}
        least == {p \in att : \A q \in att :
                     get_piece_kind(P.board[p]) <= get_piece_kind(P.board[q])}
    IN IF att = {} THEN pks
       ELSE SwapOff(P, sq, s, occupied \ {Min(least)}, Append(pks, current),
                    get_piece_kind(P.board[Min(least)]))

\* The value of the swap-off for the side that makes the first capture: the
\* first capture is made, every later one only when it gains.
RECURSIVE Gain(_, _)
Gain(pks, i) ==
    IF i > Len(pks) THEN 0
    ELSE IF i = 1 THEN PIECE_VALUE[pks[1] + 1] - Gain(pks, 2)
    ELSE Max(0, PIECE_VALUE[pks[i] + 1] - Gain(pks, i + 1))

ReferenceSee(P, move) ==
    Gain(SwapOff(P, to(move), P.current_side, pieces(P) \ {from(move), to(move)},
                 <<get_piece_kind(P.board[to(move)])>>,
                 get_piece_kind(P.board[from(move)])), 1)

\* C36: see(move) is the value of the swap-off on the target square in which
\* the sliders behind a piece that has captured join the attackers, each
\* side recaptures with its least valuable attacker, the first capture is
\* forced and every later one may be declined.
C36_SeeIsSwapOff ==
    note.op = "see" => note.value = ReferenceSee(Pos, note.move)

(***************************************************************************)
(* Endgame recognizer (src/unnamed/part_001:17-137).  VALUE_DRAW,          *)
(* VALUE_KNOWN_WIN and VALUE_MATE are declared in types.h; the bitbase is  *)
(* a precomputed table, so its answer is an input of the score.            *)
(***************************************************************************)
VALUE_DRAW == 0
VALUE_KNOWN_WIN == 10000
VALUE_MATE == 32000

PUSH_TO_EDGE_BONUS ==
    <<100, 90, 80, 70, 70, 80, 90, 100,
       90, 60, 50, 40, 40, 50, 60,  90,
       80, 50, 30, 20, 20, 30, 40,  80,
       70, 40, 20, 10, 10, 20, 40,  70,
       70, 40, 20, 10, 10, 20, 40,  70,
       80, 50, 30, 20, 20, 30, 40,  80,
       90, 60, 50, 40, 40, 50, 60,  90,
      100, 90, 80, 70, 70, 80, 90, 100>>

PUSH_TO_COLOR_CORNER_BONUS ==
    <<100, 90, 80, 70, 70, 60, 50,  40,
       90, 60, 50, 40, 40, 50, 60,  50,
       80, 50, 30, 20, 20, 30, 40,  60,
       70, 40, 20, 10, 10, 20, 40,  70,
       70, 40, 20, 10, 10, 20, 40,  70,
       60, 50, 30, 20, 20, 30, 40,  80,
       50, 60, 50, 40, 40, 50, 60,  90,
       40, 50, 60, 70, 70, 80, 90, 100>>

PUSH_CLOSE == <<0, 7, 6, 5, 4, 3, 2, 1>>

distance(a, b) == Max(Abs(file(a) - file(b)), Abs(rank(a) - rank(b)))

flip_vertically(sq) == (7 - rank(sq)) * 8 + file(sq)

flip_horizontally(sq) == rank(sq) * 8 + (7 - file(sq))

EndgameTypes == {"kKPK", "kKNBK", "kKXK"}

\* Endgame<T>::applies
applies(T, strongSide, P) ==
    LET weakSide == Opp(strongSide)
    IN CASE T = "kKPK" ->
              /\ no_pieces(P, make_piece(strongSide, PAWN)) = 1
              /\ no_pieces(P, make_piece(weakSide, PAWN)) = 0
              /\ \A k \in {KNIGHT, BISHOP, ROOK, QUEEN} : P.by_piece_kind_bb[k] = {}
         [] T = "kKNBK" ->
              /\ no_pieces(P, make_piece(strongSide, KNIGHT)) = 1
              /\ no_pieces(P, make_piece(strongSide, BISHOP)) = 1
              /\ no_pieces(P, make_piece(weakSide, KNIGHT)) = 0
              /\ no_pieces(P, make_piece(weakSide, BISHOP)) = 0
              /\ \A k \in {PAWN, ROOK, QUEEN} : P.by_piece_kind_bb[k] = {}
         [] OTHER -> TRUE

\* bitbase::normalize: the strong side becomes White (ranks and the side to
\* move are flipped when it is Black) and the pawn is brought to files a-d.
normalize(strongSide, side, strongKing, strongPawn, weakKing) ==
    LET V(sq) == IF strongSide = BLACK THEN flip_vertically(sq) ELSE sq
        mirror == file(strongPawn) > FILE_D
        H(sq) == IF mirror THEN flip_horizontally(sq) ELSE sq
    IN [side |-> IF strongSide = BLACK THEN Opp(side) ELSE side,
        strongKing |-> H(V(strongKing)),
        strongPawn |-> H(V(strongPawn)),
        weakKing |-> H(V(weakKing))]

\* Endgame<kKPK>::score; check is the answer of bitbase::check.
KPK_score(P, strongSide, check) ==
    LET weakSide == Opp(strongSide)
        n == normalize(strongSide, P.current_side,
                       piece_position_of(P, make_piece(strongSide, KING)),
                       piece_position_of(P, make_piece(strongSide, PAWN)),
                       piece_position_of(P, make_piece(weakSide, KING)))
        v == VALUE_KNOWN_WIN + rank(n.strongPawn)
    IN IF ~check THEN VALUE_DRAW
       ELSE IF P.current_side = strongSide THEN v ELSE -v

\* Endgame<kKNBK>::score
KNBK_score(P, strongSide) ==
    LET weakKing == piece_position_of(P, make_piece(Opp(strongSide), KING))
        bishop == piece_position_of(P, make_piece(strongSide, BISHOP))
        bishopColor == IF (rank(bishop) + file(bishop)) % 2 = 1 THEN WHITE ELSE BLACK
        kingSquare == IF bishopColor = WHITE THEN flip_vertically(weakKing) ELSE weakKing
        v0 == PUSH_TO_COLOR_CORNER_BONUS[kingSquare + 1]
        v == IF VALUE_KNOWN_WIN + v0 < VALUE_MATE - 1
             THEN VALUE_KNOWN_WIN + v0 ELSE VALUE_MATE - 1
    IN IF P.current_side = strongSide THEN v ELSE -v

KXK_score_unoriented(P, strongSide) ==
    LET strongKing == piece_position_of(P, make_piece(strongSide, KING))
        weakKing == piece_position_of(P, make_piece(Opp(strongSide), KING))
        n(k) == no_pieces(P, make_piece(strongSide, k))
        v0 == VALUE_DRAW + 100 * n(PAWN) + 300 * n(KNIGHT) + 300 * n(BISHOP)
              + 500 * n(ROOK) + 900 * n(QUEEN)
              + PUSH_TO_EDGE_BONUS[weakKing + 1]
              + PUSH_CLOSE[distance(strongKing, weakKing) + 1]
    IN IF v0 + VALUE_KNOWN_WIN < VALUE_MATE - 1
       THEN v0 + VALUE_KNOWN_WIN ELSE VALUE_MATE - 1
\* Endgame<kKXK>::score
KXK_score(P, strongSide) ==
    LET strongKing == piece_position_of(P, make_piece(strongSide, KING))
        weakKing == piece_position_of(P, make_piece(Opp(strongSide), KING))
        n(k) == no_pieces(P, make_piece(strongSide, k))
        v0 == VALUE_DRAW + 100 * n(PAWN) + 300 * n(KNIGHT) + 300 * n(BISHOP)
              + 500 * n(ROOK) + 900 * n(QUEEN)
              + PUSH_TO_EDGE_BONUS[weakKing + 1]
              + PUSH_CLOSE[distance(strongKing, weakKing) + 1]
        v == IF v0 + VALUE_KNOWN_WIN < VALUE_MATE - 1
             THEN v0 + VALUE_KNOWN_WIN ELSE VALUE_MATE - 1
    IN IF P.current_side = strongSide THEN v ELSE -v

Endgame_score(T, strongSide, P, check) ==
    CASE T = "kKPK" -> KPK_score(P, strongSide, check)
      [] T = "kKNBK" -> KNBK_score(P, strongSide)
      [] OTHER -> KXK_score(P, strongSide)

\* 4k3/8/8/8/8/8/4P3/4K3 w - - 0 1
FenKpk ==
    [board |-> <<"4", "k", "3", "/", "8", "/", "8", "/", "8", "/", "8", "/", "8", "/", "4", "P", "3", "/", "4", "K", "3">>,
     side |-> "w", castling |-> <<"-">>, ep |-> <<"-">>, halfmove |-> <<"0">>, fullmove |-> <<"1">>]

\* 4k3/6p1/8/8/8/8/8/4K3 b - - 0 1
FenKpkBlack ==
    [board |-> <<"4", "k", "3", "/", "6", "p", "1", "/", "8", "/", "8", "/", "8", "/", "8", "/", "8", "/", "4", "K", "3">>,
     side |-> "b", castling |-> <<"-">>, ep |-> <<"-">>, halfmove |-> <<"0">>, fullmove |-> <<"1">>]

\* 4k3/8/8/8/8/8/8/2B1KN2 w - - 0 1
FenKnbk ==
    [board |-> <<"4", "k", "3", "/", "8", "/", "8", "/", "8", "/", "8", "/", "8", "/", "8", "/", "2", "B", "1", "K", "N", "2">>,
     side |-> "w", castling |-> <<"-">>, ep |-> <<"-">>, halfmove |-> <<"0">>, fullmove |-> <<"1">>]

\* 1nb1k3/8/8/8/8/8/8/4K3 w - - 0 1
FenKnbkBlack ==
    [board |-> <<"1", "n", "b", "1", "k", "3", "/", "8", "/", "8", "/", "8", "/", "8", "/", "8", "/", "8", "/", "4", "K", "3">>,
     side |-> "w", castling |-> <<"-">>, ep |-> <<"-">>, halfmove |-> <<"0">>, fullmove |-> <<"1">>]

\* 8/8/8/3k4/8/8/8/Q3K3 b - - 0 1
FenKqk ==
    [board |-> <<"8", "/", "8", "/", "8", "/", "3", "k", "4", "/", "8", "/", "8", "/", "8", "/", "Q", "3", "K", "3">>,
     side |-> "b", castling |-> <<"-">>, ep |-> <<"-">>, halfmove |-> <<"0">>, fullmove |-> <<"1">>]

EndgameFens == {FenKpk, FenKpkBlack, FenKnbk, FenKnbkBlack, FenKqk}

InitEndgame ==
    /\ \E fenstr \in EndgameFens : InitPos(PositionOfFen(fenstr))
    /\ stack = <<>>
    /\ last = NoOp
    /\ mi = NoInfo
    /\ note = NoNote
    /\ srch = NoSearch
    /\ book = NoBook
    /\ Uci = NoUci

\* One recognizer of the catalogue that applies is asked for its score.
Score ==
    /\ note = NoNote
    /\ \E T \in EndgameTypes, strongSide \in {WHITE, BLACK} :
       \E check \in (IF T = "kKPK" THEN BOOLEAN ELSE {FALSE}) :
          /\ applies(T, strongSide, Pos)
          /\ note' = [op |-> "endgame", type |-> T, strongSide |-> strongSide,
                      check |-> check, value |-> Endgame_score(T, strongSide, Pos, check)]
    /\ PosUnchanged
    /\ UNCHANGED <<stack, last, mi, srch, book, Uci>>

NextEndgame == Play \/ Score

SpecEndgame == InitEndgame /\ [][NextEndgame]_vars

\* The same position with the other side to move.
OtherToMove(P) == [P EXCEPT !.current_side = Opp(@)]

\* The pawn's rank as seen from the strong side (0 for the own back rank).
NormalizedPawnRank(P, strongSide) ==
    LET sq == piece_position_of(P, make_piece(strongSide, PAWN))
    IN IF strongSide = WHITE THEN rank(sq) ELSE 7 - rank(sq)

\* C37: every endgame score is oriented to the side to move.  For KNBK and
\* KXK the result is +v with the strong side to move and -v with the weak
\* side to move, VALUE_KNOWN_WIN <= v <= VALUE_MATE - 1, and v is the same
\* whichever side is to move; for KPK the result is VALUE_DRAW when the
\* bitbase reports no win and otherwise VALUE_KNOWN_WIN + the rank of the
\* normalized pawn, positive iff the strong side is to move.
C37_EndgameScoreOriented ==
    note.op = "endgame" =>
       LET strong == current_side = note.strongSide
           v == IF strong THEN note.value ELSE -note.value
       IN IF note.type = "kKPK"
          THEN IF ~note.check THEN note.value = VALUE_DRAW
               ELSE /\ v = VALUE_KNOWN_WIN + NormalizedPawnRank(Pos, note.strongSide)
                    /\ (note.value > 0) <=> strong
          ELSE /\ VALUE_KNOWN_WIN <= v
               /\ v <= VALUE_MATE - 1
               /\ Endgame_score(note.type, note.strongSide, OtherToMove(Pos), FALSE)
                     = -note.value

\* A KXK score for the weak side to move, a KNBK score and a won KPK score
\* for a black pawn have been given.
C37_Witness ==
    /\ note.op = "endgame"
    /\ \/ note.type = "kKXK" /\ current_side # note.strongSide
          /\ no_pieces(Pos, make_piece(note.strongSide, QUEEN)) = 1
       \/ note.type = "kKPK" /\ note.check /\ note.strongSide = BLACK
          /\ current_side = WHITE

(***************************************************************************)
(* The incremental key against HashKey::init on a fresh Position.          *)
(***************************************************************************)
\* A Position constructed with the board, side to move, castling rights
\* and en-passant square of P.
FreshPosition(P) ==
    LET P1 == PlaceBoard(EmptyPosition, FenBoard(P, RANK_8), 1, SQ_A8)
        P2 == [P1 EXCEPT !.current_side = P.current_side,
                         !.castling_rights = P.castling_rights,
                         !.enpassant_square = P.enpassant_square]
    IN [P2 EXCEPT !.zobrist_hash = hash_init(P2)]

\* A pawn moves, is captured or promotes in `move` made on position A.
PawnInvolved(A, move) ==
    /\ castling(move) = NO_CASTLING
    /\ \/ make_piece_kind(A.board[from(move)]) = PAWN
       \/ make_piece_kind(A.board[to(move)]) = PAWN

\* The pawn subkey changes in a step only when a pawn moves, is captured or
\* promotes in the move made or taken back.
PawnKeyStep ==
    zobrist_hash'.pawn_key # zobrist_hash.pawn_key =>
       \/ last'.op = "do_move" /\ PawnInvolved(Pos, last'.move)
       \/ last'.op = "undo_move" /\ PawnInvolved(Pos', last'.move)

\* C38: after any stack-disciplined sequence of do_move, undo_move,
\* do_null_move and undo_null_move each of the five subkeys held by the
\* Position equals the subkey HashKey::init computes for a freshly
\* constructed Position with the same board, side to move, castling rights
\* and en-passant square, and the pawn subkey changes only when a pawn
\* moves, is captured or promotes.
C38_SubkeysSelfConsistent ==
    /\ [](zobrist_hash = FreshPosition(Pos).zobrist_hash)
    /\ [][PawnKeyStep]_vars

HomeKingSquare(right) ==
    make_square(IF right \in CASTLING_RIGHTS(WHITE) THEN RANK_1 ELSE RANK_8, FILE_E)

HomeRookSquare(right) ==
    LET c == IF right \in CASTLING_RIGHTS(WHITE) THEN WHITE ELSE BLACK
    IN IF right \in KING_CASTLING THEN KING_SIDE_ROOK_SQUARE(c)
       ELSE QUEEN_SIDE_ROOK_SQUARE(c)

\* Every set right has its king and its rook on their home squares.
RightsMatchBoard(P) ==
    \A right \in P.castling_rights :
       LET c == IF right \in CASTLING_RIGHTS(WHITE) THEN WHITE ELSE BLACK
       IN /\ P.board[HomeKingSquare(right)] = make_piece(c, KING)
          /\ P.board[HomeRookSquare(right)] = make_piece(c, ROOK)

\* The castling move made on P takes king and rook from their squares and
\* puts them on empty squares.
CastlingSquaresFit(P, move) ==
    LET side == P.current_side
        rk == IF side = WHITE THEN RANK_1 ELSE RANK_8
        k == castling(move) = KING_CASTLING
    IN /\ P.board[make_square(rk, FILE_E)] = make_piece(side, KING)
       /\ P.board[make_square(rk, IF k THEN FILE_H ELSE FILE_A)] = make_piece(side, ROOK)
       /\ P.board[make_square(rk, IF k THEN FILE_G ELSE FILE_C)] = NO_PIECE
       /\ P.board[make_square(rk, IF k THEN FILE_F ELSE FILE_D)] = NO_PIECE

\* C40: castling rights never grow under do_move, and in every position
\* reachable by do_move and undo_move from an initial position whose rights
\* fit its board a set right implies that its king stands on e1/e8 and its
\* rook on its home corner, so that the castling do_move performs never
\* moves from an empty square or onto an occupied square.
C40_CastlingRightsFitBoard ==
    /\ last.op = "do_move" => castling_rights \subseteq last.before.castling_rights
    /\ RightsMatchBoard(Pos)
    /\ last.op = "do_move" /\ castling(last.move) # NO_CASTLING =>
          CastlingSquaresFit(last.before, last.move)

====
